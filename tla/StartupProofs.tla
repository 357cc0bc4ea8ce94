--------------------------- MODULE StartupProofs ---------------------------
(* Theorems about Startup, for any number of threads and tasks: its types, *)
(* the ids start() collects, and that the whole implements TaskPool.       *)
EXTENDS Startup, TLAPS, SequenceTheorems

(* The two kinds of threads keep to their labels; threads are created in   *)
(* order; a semaphore is signalled once, after the id was stored.          *)
Roles ==
  /\ pc[Main] \in MainLabels \cup RunLabels
  /\ \A w \in Workers : pc[w] \in WorkerLabels \cup RunLabels

Unpublished == {"none", "born"}
Unsignalled == {"none", "born", "signal"}

Handshake ==
  /\ \A w \in Workers : pc[w] \in Unsignalled => count[w] = 0
  /\ \A w \in Workers : pc[w] \notin Unpublished => id[w] = w
  /\ pc[Main] \in {"wait", "push"} => next \in Workers
  /\ pc[Main] = "push" => pc[next] \notin Unsignalled
  /\ pc[Main] \in {"new", "create"} => \A w \in Workers : w >= next => pc[w] = "none"
  /\ pc[Main] \in {"wait", "push"} => \A w \in Workers : w > next => pc[w] = "none"

Inv0 == TypeOK /\ Roles /\ Handshake

(* TypeOK in two halves: truth values, and everything else.                *)
Truths == /\ userCaller \in BOOLEAN /\ current \in BOOLEAN /\ stopping \in BOOLEAN
          /\ idle \in [Threads -> BOOLEAN]

Values == /\ pc \in [Threads -> MainLabels \cup WorkerLabels \cup RunLabels]
          /\ next \in 1..(N + 1)
          /\ id \in [Workers -> Workers \cup {Unset}]
          /\ count \in [Workers -> 0..1]
          /\ ids \in Seq(Threads \cup {Unset})
          /\ state \in [Tasks -> {"new", "queued", "taken", "done"}]
          /\ target \in [Tasks -> Threads \cup {Any}]
          /\ work \in [Threads -> SUBSET Tasks]

LEMMA Halves == Inv0 <=> Truths /\ Values /\ Roles /\ Handshake
  BY DEF Inv0, TypeOK, Truths, Values

LEMMA InitInv0 == Init => Inv0
<1> SUFFICES ASSUME Init PROVE Inv0
  OBVIOUS
<1>1. TypeOK
  <2>1. ids \in Seq(Threads \cup {Unset})
    BY DEF Init
  <2>2. /\ userCaller \in BOOLEAN /\ current \in BOOLEAN /\ stopping \in BOOLEAN
        /\ idle \in [Threads -> BOOLEAN]
    BY DEF Init
  <2>3. /\ pc \in [Threads -> MainLabels \cup WorkerLabels \cup RunLabels]
        /\ next \in 1..(N + 1)
        /\ id \in [Workers -> Workers \cup {Unset}]
        /\ count \in [Workers -> 0..1]
    BY NAssumption DEF Init, Threads, Workers, Main, MainLabels, WorkerLabels, RunLabels
  <2>4. /\ state \in [Tasks -> {"new", "queued", "taken", "done"}]
        /\ target \in [Tasks -> Threads \cup {Any}]
        /\ work \in [Threads -> SUBSET Tasks]
    BY DEF Init
  <2> QED
    BY <2>1, <2>2, <2>3, <2>4 DEF TypeOK
<1>2. Roles /\ Handshake
  <2>1. /\ Main \in Threads /\ Main \notin Workers
        /\ \A w \in Workers : w \in Threads /\ w # Main
    BY NAssumption DEF Threads, Workers, Main
  <2>2. pc[Main] = "new" /\ \A w \in Workers : pc[w] = "none" /\ count[w] = 0
    BY <2>1 DEF Init
  <2> QED
    BY <2>1, <2>2 DEF Roles, Handshake, Unsignalled, Unpublished, MainLabels, WorkerLabels, RunLabels
<1> QED
  BY <1>1, <1>2 DEF Inv0

LEMMA StepTruths == Inv0 /\ [Next]_vars => Truths'
<1> SUFFICES ASSUME Inv0, [Next]_vars PROVE Truths'
  OBVIOUS
<1>0. Truths
  BY Halves
<1>1. UNCHANGED <<userCaller, current, stopping, idle>> => Truths'
  BY <1>0 DEF Truths
<1>2. CASE Construct
  BY <1>0, <1>2 DEF Construct, Truths
<1>3. CASE Destroy
  BY <1>0, <1>3 DEF Destroy, Truths
<1>4. CASE Stop
  BY <1>0, <1>4 DEF Stop, startVars, Truths
<1>5. ASSUME NEW t \in Threads, EnterRun(t) PROVE Truths'
  BY <1>0, <1>5 DEF EnterRun, Truths
<1>6. ASSUME NEW t \in Threads, Idle(t) PROVE Truths'
  BY <1>0, <1>6 DEF Idle, startVars, Truths
<1>7. CASE Create \/ Wait \/ PushId \/ Started \/ Join \/ Stopped
  BY <1>1, <1>7 DEF Create, Wait, PushId, Started, Join, Stopped, startVars
<1>8. ASSUME NEW w \in Workers, Publish(w) \/ Signal(w) PROVE Truths'
  BY <1>1, <1>8 DEF Publish, Signal
<1>9. ASSUME NEW t \in Threads,
             Finish(t) \/ Leave(t) \/ ResumeIdle(t) \/ WakeUp(t) \/ YieldIdle(t) \/ (\E k \in Tasks : Take(t, k))
      PROVE Truths'
  BY <1>1, <1>9 DEF Finish, Leave, ResumeIdle, WakeUp, YieldIdle, Take, startVars
<1>10. ASSUME NEW k \in Tasks, NEW for \in Threads \cup {Any},
              Post(k, for) \/ \E t \in Threads : PostFromTask(t, k, for)
       PROVE Truths'
  BY <1>1, <1>10 DEF Post, PostFromTask, startVars
<1>11. CASE UNCHANGED vars
  BY <1>1, <1>11 DEF vars, startVars
<1> QED
  BY <1>2, <1>3, <1>4, <1>5, <1>6, <1>7, <1>8, <1>9, <1>10, <1>11 DEF Next, StartStep, RunStep

LEMMA StepValues == Inv0 /\ [Next]_vars => (Values /\ Roles /\ Handshake)'
<1> SUFFICES ASSUME Inv0, [Next]_vars PROVE (Values /\ Roles /\ Handshake)'
  OBVIOUS
<1>0. Values /\ Roles /\ Handshake
  BY Halves
<1> USE NAssumption, <1>0 DEF Values, Roles, Handshake, Threads, Workers, Main, Unset, Any,
       MainLabels, WorkerLabels, RunLabels, Unsignalled, Unpublished, Goto
<1>1. CASE Construct
  <2>1. ids' \in Seq(Threads \cup {Unset})
    <3>1. ids' = <<Main>> \/ ids' = << >>
      BY <1>1 DEF Construct
    <3>2. <<0>> \in Seq(Threads \cup {Unset}) /\ << >> \in Seq(Threads \cup {Unset})
      <4>1. 0 \in Threads \cup {Unset}
        OBVIOUS
      <4> HIDE DEF Threads, Unset
      <4> QED
        BY <4>1
    <3> QED
      BY <3>1, <3>2
  <2>2. /\ pc[0] = "new" /\ pc' = [pc EXCEPT ![0] = "create"]
        /\ UNCHANGED <<next, id, count, state, target, work>>
    BY <1>1 DEF Construct, taskVars
  <2> QED
    BY <2>1, <2>2
<1>2. CASE Create
  <2>1. next \in 1..N /\ next # 0
    BY <1>2 DEF Create
  <2>2. /\ pc[0] = "create" /\ pc' = [pc EXCEPT ![0] = "wait", ![next] = "born"]
        /\ UNCHANGED <<next, id, count, ids, state, target, work>>
    BY <1>2 DEF Create, startVars, taskVars
  <2>3. /\ pc' \in [Threads -> MainLabels \cup WorkerLabels \cup RunLabels]
        /\ pc'[0] = "wait" /\ pc'[next] = "born"
        /\ \A w \in 1..N : w # next => pc'[w] = pc[w]
    BY <2>1, <2>2
  <2>4. count[next] = 0
    BY <2>1, <2>2
  <2>5. Values'
    BY <2>2, <2>3
  <2>6. Roles'
    BY <2>1, <2>2, <2>3
  <2>7. Handshake'
    BY <2>1, <2>2, <2>3, <2>4
  <2> QED
    BY <2>5, <2>6, <2>7
<1>3. CASE Wait
  BY <1>3 DEF Wait, taskVars
<1>4. CASE PushId
  BY <1>4 DEF PushId, taskVars
<1>5. CASE Started
  BY <1>5 DEF Started, taskVars
<1>6. CASE Stop
  BY <1>6 DEF Stop, startVars, taskVars
<1>7. CASE Join \/ Stopped
  <2>1. CASE Join
    BY <2>1 DEF Join, startVars, taskVars
  <2>2. CASE Stopped
    BY <2>2 DEF Stopped, startVars, taskVars
  <2> QED
    BY <1>7, <2>1, <2>2
<1>8. CASE Destroy
  BY <1>8 DEF Destroy, taskVars
<1>9. ASSUME NEW w \in Workers, Publish(w) PROVE (Values /\ Roles /\ Handshake)'
  BY <1>9 DEF Publish, taskVars
<1>10. ASSUME NEW w \in Workers, Signal(w) PROVE (Values /\ Roles /\ Handshake)'
  BY <1>10 DEF Signal, taskVars
<1>11. ASSUME NEW t \in Threads, EnterRun(t) PROVE (Values /\ Roles /\ Handshake)'
  BY <1>11 DEF EnterRun, taskVars
<1>12. ASSUME NEW t \in Threads, NEW k \in Tasks, Take(t, k) PROVE (Values /\ Roles /\ Handshake)'
  BY <1>12 DEF Take, startVars
<1>13. ASSUME NEW t \in Threads, Finish(t) PROVE (Values /\ Roles /\ Handshake)'
  BY <1>13 DEF Finish, startVars
<1>14. ASSUME NEW t \in Threads, Leave(t) \/ ResumeIdle(t) \/ WakeUp(t) \/ YieldIdle(t) PROVE (Values /\ Roles /\ Handshake)'
  <2>1. CASE Leave(t)
    BY <2>1 DEF Leave, startVars, taskVars
  <2>2. CASE ResumeIdle(t)
    BY <2>2 DEF ResumeIdle, startVars, taskVars
  <2>3. CASE WakeUp(t)
    BY <2>3 DEF WakeUp, startVars, taskVars
  <2>4. CASE YieldIdle(t)
    BY <2>4 DEF YieldIdle, startVars, taskVars
  <2> QED
    BY <1>14, <2>1, <2>2, <2>3, <2>4
<1>15. ASSUME NEW t \in Threads, Idle(t) PROVE (Values /\ Roles /\ Handshake)'
  BY <1>15 DEF Idle, startVars, taskVars
<1>16. ASSUME NEW k \in Tasks, NEW for \in Threads \cup {Any}, Post(k, for) PROVE (Values /\ Roles /\ Handshake)'
  BY <1>16 DEF Post, Push, startVars
<1>17. ASSUME NEW t \in Threads, NEW k \in Tasks, NEW for \in Threads \cup {Any}, PostFromTask(t, k, for) PROVE (Values /\ Roles /\ Handshake)'
  BY <1>17 DEF PostFromTask, Push, startVars
<1>18. CASE UNCHANGED vars
  BY <1>18 DEF vars, startVars, taskVars
<1> HIDE DEF Values, Roles, Handshake
<1> QED
  BY <1>1, <1>2, <1>3, <1>4, <1>5, <1>6, <1>7, <1>8, <1>9, <1>10, <1>11, <1>12, <1>13, <1>14, <1>15, <1>16, <1>17, <1>18
     DEF Next, StartStep, RunStep

LEMMA StepInv0 == Inv0 /\ [Next]_vars => Inv0'
<1>1. (Inv0 <=> Truths /\ Values /\ Roles /\ Handshake)'
  BY Halves, PTL
<1> QED
  BY <1>1, StepTruths, StepValues

(* Every variable keeps its type: in particular no semaphore counts to two *)
(* and m_threadIds grows by one id per thread.                             *)
THEOREM TypeCorrect == Spec => []TypeOK
<1>1. Inv0 => TypeOK
  BY DEF Inv0
<1> QED
  BY <1>1, InitInv0, StepInv0, PTL DEF Spec
---------------------------------------------------------------------------
(* t_scheduler is this scheduler from its constructor to its destructor.   *)
CurrentKnown == pc[Main] \notin {"new", "gone"} => current

LEMMA StepCurrent == Inv0 /\ CurrentKnown /\ [Next]_vars => CurrentKnown'
<1> SUFFICES ASSUME Inv0, CurrentKnown, [Next]_vars PROVE CurrentKnown'
  OBVIOUS
<1>0. Values /\ Roles
  BY Halves
<1> USE NAssumption, <1>0 DEF CurrentKnown, Goto, Values, Roles, Threads, Workers, Main, MainLabels, WorkerLabels, RunLabels
<1>1. CASE Construct
  BY <1>1 DEF Construct, startVars, taskVars
<1>2. CASE Create
  BY <1>2 DEF Create, startVars, taskVars
<1>3. CASE Wait
  BY <1>3 DEF Wait, startVars, taskVars
<1>4. CASE PushId
  BY <1>4 DEF PushId, startVars, taskVars
<1>5. CASE Started
  BY <1>5 DEF Started, startVars, taskVars
<1>6. CASE Stop
  BY <1>6 DEF Stop, startVars, taskVars
<1>7. CASE Join
  BY <1>7 DEF Join, startVars, taskVars
<1>8. CASE Stopped
  BY <1>8 DEF Stopped, startVars, taskVars
<1>9. CASE Destroy
  BY <1>9 DEF Destroy, startVars, taskVars
<1>10. ASSUME NEW w \in Workers, Publish(w) PROVE CurrentKnown'
  BY <1>10 DEF Publish, startVars, taskVars
<1>11. ASSUME NEW w \in Workers, Signal(w) PROVE CurrentKnown'
  BY <1>11 DEF Signal, startVars, taskVars
<1>12. ASSUME NEW t \in Threads, EnterRun(t) PROVE CurrentKnown'
  BY <1>12 DEF EnterRun, startVars, taskVars
<1>13. ASSUME NEW t \in Threads, NEW k \in Tasks, Take(t, k) PROVE CurrentKnown'
  BY <1>13 DEF Take, startVars, taskVars
<1>14. ASSUME NEW t \in Threads, Finish(t) PROVE CurrentKnown'
  BY <1>14 DEF Finish, startVars, taskVars
<1>15. ASSUME NEW t \in Threads, Leave(t) PROVE CurrentKnown'
  BY <1>15 DEF Leave, startVars, taskVars
<1>16. ASSUME NEW t \in Threads, ResumeIdle(t) PROVE CurrentKnown'
  BY <1>16 DEF ResumeIdle, startVars, taskVars
<1>17. ASSUME NEW t \in Threads, WakeUp(t) PROVE CurrentKnown'
  BY <1>17 DEF WakeUp, startVars, taskVars
<1>18. ASSUME NEW t \in Threads, YieldIdle(t) PROVE CurrentKnown'
  BY <1>18 DEF YieldIdle, startVars, taskVars
<1>19. ASSUME NEW t \in Threads, Idle(t) PROVE CurrentKnown'
  BY <1>19 DEF Idle, startVars, taskVars
<1>20. ASSUME NEW k \in Tasks, NEW for \in Threads \cup {Any}, Post(k, for) PROVE CurrentKnown'
  BY <1>20 DEF Post, Push, startVars, taskVars
<1>21. ASSUME NEW t \in Threads, NEW k \in Tasks, NEW for \in Threads \cup {Any}, PostFromTask(t, k, for) PROVE CurrentKnown'
  BY <1>21 DEF PostFromTask, Push, startVars, taskVars
<1>22. CASE UNCHANGED vars
  BY <1>22 DEF vars, startVars, taskVars
<1> HIDE DEF CurrentKnown, Values, Roles
<1> QED
  BY <1>1, <1>2, <1>3, <1>4, <1>5, <1>6, <1>7, <1>8, <1>9, <1>10, <1>11, <1>12, <1>13, <1>14, <1>15, <1>16, <1>17, <1>18, <1>19, <1>20, <1>21, <1>22
     DEF Next, StartStep, RunStep

---------------------------------------------------------------------------
(* m_threadIds holds the ids in the order of creation, the caller's first. *)
First == IF userCaller THEN 1 ELSE 0

IdsInOrder ==
  /\ \A i \in 1..Len(ids) : ids[i] = i - First
  /\ pc[Main] = "new" => Len(ids) = 0 /\ next = 1
  /\ pc[Main] \in {"create", "wait", "push"} => Len(ids) = First + next - 1
  /\ Len(ids) <= First + N

LEMMA StepIds == Inv0 /\ IdsInOrder /\ [Next]_vars => IdsInOrder'
<1> SUFFICES ASSUME Inv0, IdsInOrder, [Next]_vars PROVE IdsInOrder'
  OBVIOUS
<1>a. userCaller' = userCaller
  BY DEF Next, StartStep, Construct, Create, Wait, PushId, Started, Stop, Join, Stopped, Destroy, Publish, Signal,
         RunStep, EnterRun, Take, Finish, Leave, ResumeIdle, Idle, WakeUp, YieldIdle, Post, PostFromTask, startVars, vars
<1>0. Values /\ Roles /\ Handshake /\ First \in {0, 1} /\ First' = First
  BY <1>a, Halves DEF First
<1> USE NAssumption, <1>0 DEF IdsInOrder, Goto, Values, Roles, Threads, Workers, Main, MainLabels, WorkerLabels, RunLabels
<1>1. CASE Construct
  BY <1>1 DEF Construct, startVars, taskVars
<1>2. CASE Create
  BY <1>2 DEF Create, startVars, taskVars
<1>3. CASE Wait
  BY <1>3 DEF Wait, startVars, taskVars
<1>4. CASE PushId
  <2>1. /\ ids' = Append(ids, id[next]) /\ pc' = [pc EXCEPT ![0] = "create"] /\ next' = next + 1
        /\ pc[0] = "push" /\ next \in 1..N
    BY <1>4 DEF PushId, Handshake
  <2>2. id[next] = next
    BY <2>1 DEF Handshake, Unsignalled, Unpublished
  <2>3. Len(ids') = Len(ids) + 1 /\ ids'[Len(ids) + 1] = next /\ \A i \in 1..Len(ids) : ids'[i] = ids[i]
    BY <2>1, <2>2
  <2>4. Len(ids) = First + next - 1 /\ Len(ids) \in Nat
    BY <2>1
  <2>5. \A i \in 1..Len(ids') : ids'[i] = i - First
    BY <2>3, <2>4
  <2> QED
    BY <2>1, <2>3, <2>4, <2>5
<1>5. CASE Started
  BY <1>5 DEF Started, startVars, taskVars
<1>6. CASE Stop
  BY <1>6 DEF Stop, startVars, taskVars
<1>7. CASE Join
  BY <1>7 DEF Join, startVars, taskVars
<1>8. CASE Stopped
  BY <1>8 DEF Stopped, startVars, taskVars
<1>9. CASE Destroy
  BY <1>9 DEF Destroy, startVars, taskVars
<1>10. ASSUME NEW w \in Workers, Publish(w) PROVE IdsInOrder'
  BY <1>10 DEF Publish, startVars, taskVars
<1>11. ASSUME NEW w \in Workers, Signal(w) PROVE IdsInOrder'
  BY <1>11 DEF Signal, startVars, taskVars
<1>12. ASSUME NEW t \in Threads, EnterRun(t) PROVE IdsInOrder'
  BY <1>12 DEF EnterRun, startVars, taskVars
<1>13. ASSUME NEW t \in Threads, NEW k \in Tasks, Take(t, k) PROVE IdsInOrder'
  BY <1>13 DEF Take, startVars, taskVars
<1>14. ASSUME NEW t \in Threads, Finish(t) PROVE IdsInOrder'
  BY <1>14 DEF Finish, startVars, taskVars
<1>15. ASSUME NEW t \in Threads, Leave(t) PROVE IdsInOrder'
  BY <1>15 DEF Leave, startVars, taskVars
<1>16. ASSUME NEW t \in Threads, ResumeIdle(t) PROVE IdsInOrder'
  BY <1>16 DEF ResumeIdle, startVars, taskVars
<1>17. ASSUME NEW t \in Threads, WakeUp(t) PROVE IdsInOrder'
  BY <1>17 DEF WakeUp, startVars, taskVars
<1>18. ASSUME NEW t \in Threads, YieldIdle(t) PROVE IdsInOrder'
  BY <1>18 DEF YieldIdle, startVars, taskVars
<1>19. ASSUME NEW t \in Threads, Idle(t) PROVE IdsInOrder'
  BY <1>19 DEF Idle, startVars, taskVars
<1>20. ASSUME NEW k \in Tasks, NEW for \in Threads \cup {Any}, Post(k, for) PROVE IdsInOrder'
  BY <1>20 DEF Post, Push, startVars, taskVars
<1>21. ASSUME NEW t \in Threads, NEW k \in Tasks, NEW for \in Threads \cup {Any}, PostFromTask(t, k, for) PROVE IdsInOrder'
  BY <1>21 DEF PostFromTask, Push, startVars, taskVars
<1>22. CASE UNCHANGED vars
  BY <1>22 DEF vars, startVars, taskVars
<1> HIDE DEF IdsInOrder, Values, Roles
<1> QED
  BY <1>1, <1>2, <1>3, <1>4, <1>5, <1>6, <1>7, <1>8, <1>9, <1>10, <1>11, <1>12, <1>13, <1>14, <1>15, <1>16, <1>17, <1>18, <1>19, <1>20, <1>21, <1>22
     DEF Next, StartStep, RunStep

(* m_threadIds never receives an id that was not published, nor one twice. *)
THEOREM IdsArePublished == Spec => []IdsPublished
<1>1. Init => IdsInOrder
  BY NAssumption DEF Init, IdsInOrder, First, Threads, Main
<1>2. Inv0 /\ IdsInOrder => IdsPublished
  <2>1. First \in {0, 1}
    BY DEF First
  <2> QED
    BY <2>1, NAssumption, Halves DEF IdsInOrder, IdsPublished, Unset, Values
<1> QED
  BY <1>1, <1>2, InitInv0, StepInv0, StepIds, PTL DEF Spec

---------------------------------------------------------------------------
(* Idle fibers end, and threads leave, only after stop() was called; it    *)
(* then waits for them in order.                                           *)
Closing ==
  /\ \A t \in Threads : idle[t] \/ Left(t) => stopping
  /\ pc[Main] \in {"new", "create", "wait", "push", "app"} => ~stopping
  /\ pc[Main] \in {"app"} \cup RunLabels => next = 1
  /\ pc[Main] = "join" => \A w \in Workers : w < next => Left(w)
  /\ pc[Main] \in {"over", "gone"} => \A w \in Workers : Left(w)

LEMMA StepClosing == Inv0 /\ CurrentKnown /\ Closing /\ [Next]_vars => Closing'
<1> SUFFICES ASSUME Inv0, CurrentKnown, Closing, [Next]_vars PROVE Closing'
  OBVIOUS
<1>0. Values /\ Roles /\ CurrentKnown
  BY Halves
<1> USE NAssumption, <1>0 DEF Closing, Left, Goto, Values, Roles, CurrentKnown, Threads, Workers, Main, MainLabels, WorkerLabels, RunLabels
<1>1. CASE Construct
  BY <1>1 DEF Construct, startVars, taskVars
<1>2. CASE Create
  BY <1>2 DEF Create, startVars, taskVars
<1>3. CASE Wait
  BY <1>3 DEF Wait, startVars, taskVars
<1>4. CASE PushId
  BY <1>4 DEF PushId, startVars, taskVars
<1>5. CASE Started
  BY <1>5 DEF Started, startVars, taskVars
<1>6. CASE Stop
  <2>1. stopping' = TRUE /\ idle' = idle /\ next' = next /\ next = 1
    BY <1>6 DEF Stop, startVars
  <2>2. pc' = [pc EXCEPT ![0] = "aborted"] \/ pc' = [pc EXCEPT ![0] = "run"]
    BY <1>6 DEF Stop
  <2> QED
    BY <2>1, <2>2
<1>7. CASE Join
  BY <1>7 DEF Join, startVars, taskVars
<1>8. CASE Stopped
  BY <1>8 DEF Stopped, startVars, taskVars
<1>9. CASE Destroy
  BY <1>9 DEF Destroy, startVars, taskVars
<1>10. ASSUME NEW w \in Workers, Publish(w) PROVE Closing'
  BY <1>10 DEF Publish, startVars, taskVars
<1>11. ASSUME NEW w \in Workers, Signal(w) PROVE Closing'
  BY <1>11 DEF Signal, startVars, taskVars
<1>12. ASSUME NEW t \in Threads, EnterRun(t) PROVE Closing'
  BY <1>12 DEF EnterRun, startVars, taskVars
<1>13. ASSUME NEW t \in Threads, NEW k \in Tasks, Take(t, k) PROVE Closing'
  BY <1>13 DEF Take, startVars, taskVars
<1>14. ASSUME NEW t \in Threads, Finish(t) PROVE Closing'
  BY <1>14 DEF Finish, startVars, taskVars
<1>15. ASSUME NEW t \in Threads, Leave(t) PROVE Closing'
  BY <1>15 DEF Leave, startVars, taskVars
<1>16. ASSUME NEW t \in Threads, ResumeIdle(t) PROVE Closing'
  BY <1>16 DEF ResumeIdle, startVars, taskVars
<1>17. ASSUME NEW t \in Threads, WakeUp(t) PROVE Closing'
  BY <1>17 DEF WakeUp, startVars, taskVars
<1>18. ASSUME NEW t \in Threads, YieldIdle(t) PROVE Closing'
  BY <1>18 DEF YieldIdle, startVars, taskVars
<1>19. ASSUME NEW t \in Threads, Idle(t) PROVE Closing'
  BY <1>19 DEF Idle, startVars, taskVars
<1>20. ASSUME NEW k \in Tasks, NEW for \in Threads \cup {Any}, Post(k, for) PROVE Closing'
  BY <1>20 DEF Post, Push, startVars, taskVars
<1>21. ASSUME NEW t \in Threads, NEW k \in Tasks, NEW for \in Threads \cup {Any}, PostFromTask(t, k, for) PROVE Closing'
  BY <1>21 DEF PostFromTask, Push, startVars, taskVars
<1>22. CASE UNCHANGED vars
  BY <1>22 DEF vars, startVars, taskVars
<1> HIDE DEF Closing, Left, Values, Roles, CurrentKnown
<1> QED
  BY <1>1, <1>2, <1>3, <1>4, <1>5, <1>6, <1>7, <1>8, <1>9, <1>10, <1>11, <1>12, <1>13, <1>14, <1>15, <1>16, <1>17, <1>18, <1>19, <1>20, <1>21, <1>22
     DEF Next, StartStep, RunStep

(* A task that is queued for any thread has one that may still take it; a  *)
(* taken one is held.                                                      *)
Served ==
  /\ \A k \in Tasks : state[k] = "queued" /\ target[k] = Any => \E t \in Threads : ~Left(t)
  /\ \A k \in Tasks : state[k] = "taken" => \E t \in Threads : k \in work[t]
  /\ \A t \in Threads : work[t] # {} => pc[t] = "task"

LEMMA StepServed == Inv0 /\ CurrentKnown /\ Closing /\ Served /\ [Next]_vars => Served'
<1> SUFFICES ASSUME Inv0, CurrentKnown, Closing, Served, [Next]_vars PROVE Served'
  OBVIOUS
<1>0. Values /\ Roles /\ CurrentKnown
  BY Halves
<1> USE NAssumption, <1>0 DEF Served, Left, Goto, Values, Roles, CurrentKnown, Threads, Workers, Main, Any, MainLabels, WorkerLabels, RunLabels
<1>1. CASE Construct
  BY <1>1 DEF Construct, startVars, taskVars
<1>2. CASE Create
  <2>1. next \in 1..N /\ pc[next] = "none" /\ pc[0] = "create"
    BY <1>2, Halves DEF Create, Handshake
  <2>2. pc' = [pc EXCEPT ![0] = "wait", ![next] = "born"] /\ UNCHANGED <<state, target, work>>
    BY <1>2 DEF Create, taskVars
  <2>3. \A t \in 0..N : (~Left(t) => ~Left(t)') /\ (pc[t] = "task" => pc'[t] = "task")
    BY <2>1, <2>2
  <2> QED
    BY <2>2, <2>3
<1>3. CASE Wait
  BY <1>3 DEF Wait, startVars, taskVars
<1>4. CASE PushId
  BY <1>4 DEF PushId, startVars, taskVars
<1>5. CASE Started
  BY <1>5 DEF Started, startVars, taskVars
<1>6. CASE Stop
  BY <1>6 DEF Stop, startVars, taskVars
<1>7. CASE Join
  BY <1>7 DEF Join, startVars, taskVars
<1>8. CASE Stopped
  BY <1>8 DEF Stopped, startVars, taskVars
<1>9. CASE Destroy
  BY <1>9 DEF Destroy, startVars, taskVars
<1>10. ASSUME NEW w \in Workers, Publish(w) PROVE Served'
  BY <1>10 DEF Publish, startVars, taskVars
<1>11. ASSUME NEW w \in Workers, Signal(w) PROVE Served'
  BY <1>11 DEF Signal, startVars, taskVars
<1>12. ASSUME NEW t \in Threads, EnterRun(t) PROVE Served'
  BY <1>12 DEF EnterRun, startVars, taskVars
<1>13. ASSUME NEW t \in Threads, NEW k \in Tasks, Take(t, k) PROVE Served'
  BY <1>13 DEF Take, startVars, taskVars
<1>14. ASSUME NEW t \in Threads, Finish(t) PROVE Served'
  BY <1>14 DEF Finish, startVars, taskVars
<1>15. ASSUME NEW t \in Threads, Leave(t) PROVE Served'
  <2>1. UNCHANGED <<state, target, work>> /\ Mine(t) = {} /\ pc[t] = "scan"
    BY <1>15 DEF Leave, taskVars
  <2>2. \A u \in Threads : u # t => pc'[u] = pc[u]
    BY <1>15 DEF Leave
  <2>3. \A k \in Tasks : state[k] = "queued" => target[k] \notin {t, Any}
    BY <2>1 DEF Mine
  <2>4. \A u \in Threads : work[u] # {} => u # t
    BY <2>1
  <2> HIDE DEF Threads, Any
  <2> QED
    BY <2>1, <2>2, <2>3, <2>4
<1>16. ASSUME NEW t \in Threads, ResumeIdle(t) PROVE Served'
  BY <1>16 DEF ResumeIdle, startVars, taskVars
<1>17. ASSUME NEW t \in Threads, WakeUp(t) PROVE Served'
  BY <1>17 DEF WakeUp, startVars, taskVars
<1>18. ASSUME NEW t \in Threads, YieldIdle(t) PROVE Served'
  BY <1>18 DEF YieldIdle, startVars, taskVars
<1>19. ASSUME NEW t \in Threads, Idle(t) PROVE Served'
  BY <1>19 DEF Idle, startVars, taskVars
<1>20. ASSUME NEW k \in Tasks, NEW for \in Threads \cup {Any}, Post(k, for) PROVE Served'
  <2>1. /\ state' = [state EXCEPT ![k] = "queued"] /\ target' = [target EXCEPT ![k] = for]
        /\ pc' = pc /\ work' = work /\ pc[0] = "app"
    BY <1>20 DEF Post, Push
  <2>2. 0 \in Threads /\ ~Left(0)
    BY <2>1
  <2> HIDE DEF Threads, Any
  <2> QED
    BY <2>1, <2>2
<1>21. ASSUME NEW t \in Threads, NEW k \in Tasks, NEW for \in Threads \cup {Any}, PostFromTask(t, k, for) PROVE Served'
  BY <1>21 DEF PostFromTask, Push, startVars, taskVars
<1>22. CASE UNCHANGED vars
  BY <1>22 DEF vars, startVars, taskVars
<1> HIDE DEF Served, Left, Values, Roles, CurrentKnown
<1> QED
  BY <1>1, <1>2, <1>3, <1>4, <1>5, <1>6, <1>7, <1>8, <1>9, <1>10, <1>11, <1>12, <1>13, <1>14, <1>15, <1>16, <1>17, <1>18, <1>19, <1>20, <1>21, <1>22
     DEF Next, StartStep, RunStep

---------------------------------------------------------------------------
(* The implementation of TaskPool.  A thread that runs a task holds that   *)
(* one, which is taken, and nobody else does.                              *)
Hands ==
  /\ \A t \in Threads : pc[t] = "task" => \E k \in Tasks : work[t] = {k} /\ state[k] = "taken"
  /\ \A t, u \in Threads : work[t] \cap work[u] # {} => t = u

Closed == pc[Main] \in {"over", "gone"}

(* The steps that move a task, and what the others leave alone.            *)
Elsewhere == /\ UNCHANGED taskVars
             /\ \A t \in Threads : pc'[t] = "task" <=> pc[t] = "task"
             /\ Closed' <=> Closed
             /\ Requested' = Requested

(* The requests are the same when no thread leaves for which one is queued.*)
LEMMA SameRequests ==
  ASSUME Inv0, UNCHANGED <<state, target>>,
         \A t \in Threads : (\E k \in Tasks : state[k] = "queued" /\ target[k] = t) => (Left(t)' <=> Left(t))
  PROVE  Requested' = Requested
<1>1. \A k \in Tasks : target[k] \in Threads \/ target[k] = Any
  BY DEF Inv0, TypeOK
<1>2. ASSUME NEW k \in Tasks, state[k] = "queued" PROVE Stranded(k)' <=> Stranded(k)
  BY <1>1, <1>2 DEF Stranded
<1> QED
  BY <1>2 DEF Requested

LEMMA TaskCases ==
  ASSUME Inv0, CurrentKnown, [Next]_vars
  PROVE  \/ \E t \in Threads, k \in Tasks : Take(t, k)
         \/ \E t \in Threads : Finish(t)
         \/ \E k \in Tasks, for \in Threads \cup {Any} :
              Post(k, for) \/ \E t \in Threads : PostFromTask(t, k, for)
         \/ Stopped
         \/ Elsewhere
<1>0. Values /\ Roles /\ CurrentKnown
  BY Halves
<1> DEFINE Still == /\ UNCHANGED taskVars
                    /\ \A t \in Threads : pc'[t] = "task" <=> pc[t] = "task"
                    /\ Closed' <=> Closed
                    /\ \A t \in Threads : (\E k \in Tasks : state[k] = "queued" /\ target[k] = t) => (Left(t)' <=> Left(t))
<1>a. Still => Elsewhere
  BY SameRequests DEF Elsewhere, taskVars
<1> USE NAssumption, <1>0 DEF Left, Closed, Goto, Values, Roles, CurrentKnown, Threads, Workers, Main, MainLabels, WorkerLabels, RunLabels
<1>1. CASE Construct
  <2> Still
    BY <1>1 DEF Construct
  <2> QED
    BY <1>a
<1>2. CASE Create
  <2>1. /\ next \in 1..N /\ pc[next] = "none" /\ pc[0] = "create"
        /\ pc' = [pc EXCEPT ![0] = "wait", ![next] = "born"] /\ UNCHANGED taskVars
    BY <1>2, Halves DEF Create, Handshake
  <2>2. Still
    BY <2>1
  <2> QED
    BY <2>2, <1>a
<1>3. CASE Wait \/ PushId \/ Started \/ Stop \/ Join \/ Destroy
  <2> Still
    BY <1>3 DEF Wait, PushId, Started, Stop, Join, Destroy
  <2> QED
    BY <1>a
<1>4. ASSUME NEW w \in Workers, Publish(w) \/ Signal(w) PROVE Elsewhere
  <2> Still
    BY <1>4 DEF Publish, Signal
  <2> QED
    BY <1>a
<1>5. ASSUME NEW t \in Threads, EnterRun(t) \/ ResumeIdle(t) \/ Idle(t) PROVE Elsewhere
  <2> Still
    BY <1>5 DEF EnterRun, ResumeIdle, Idle
  <2> QED
    BY <1>a
<1>8. ASSUME NEW t \in Threads, Leave(t) PROVE Elsewhere
  <2>1. /\ UNCHANGED taskVars /\ pc[t] = "scan"
        /\ pc' = [pc EXCEPT ![t] = IF t = 0 THEN "join" ELSE "exit"]
    BY <1>8 DEF Leave
  <2>2. \A k \in Tasks : ~(state[k] = "queued" /\ target[k] = t)
    BY <1>8 DEF Leave, Mine
  <2>3. \A u \in Threads : u # t => pc'[u] = pc[u]
    BY <2>1
  <2> Still
    BY <2>1, <2>2, <2>3
  <2> QED
    BY <1>a
<1>6. ASSUME NEW t \in Threads, WakeUp(t) \/ YieldIdle(t) PROVE Elsewhere
  <2> Still
    BY <1>6 DEF WakeUp, YieldIdle
  <2> QED
    BY <1>a
<1>7. CASE UNCHANGED vars
  <2> Still
    BY <1>7 DEF vars
  <2> QED
    BY <1>a
<1> HIDE DEF Still, Left, Closed, Values, Roles, CurrentKnown
<1> QED
  BY <1>1, <1>2, <1>3, <1>4, <1>5, <1>6, <1>7, <1>8 DEF Next, StartStep, RunStep

(* A queued task is in nobody's hands.                                     *)
LEMMA StepHands == Inv0 /\ CurrentKnown /\ Served /\ Hands /\ [Next]_vars => Hands'
<1> SUFFICES ASSUME Inv0, CurrentKnown, Served, Hands, [Next]_vars PROVE Hands'
  OBVIOUS
<1>0. /\ pc \in [Threads -> MainLabels \cup WorkerLabels \cup RunLabels]
      /\ state \in [Tasks -> {"new", "queued", "taken", "done"}]
      /\ work \in [Threads -> SUBSET Tasks]
      /\ \A t \in Threads : work[t] # {} => pc[t] = "task"
  BY Halves DEF Values, Served
<1>1. \A t \in Threads : \A k \in work[t] : state[k] = "taken" /\ work[t] = {k}
  BY <1>0 DEF Hands
<1>2. ASSUME NEW t \in Threads, NEW k \in Tasks, Take(t, k) PROVE Hands'
  <2>1. /\ pc[t] = "scan" /\ state[k] = "queued"
        /\ state' = [state EXCEPT ![k] = "taken"]
        /\ work' = [work EXCEPT ![t] = {k}]
        /\ pc' = [pc EXCEPT ![t] = "task"]
    BY <1>2 DEF Take, Mine, Goto
  <2>2. \A u \in Threads : k \notin work[u]
    BY <1>1, <2>1
  <2> QED
    BY <1>0, <1>1, <2>1, <2>2 DEF Hands
<1>3. ASSUME NEW t \in Threads, Finish(t) PROVE Hands'
  <2>1. /\ pc' = [pc EXCEPT ![t] = "scan"] /\ work' = [work EXCEPT ![t] = {}]
        /\ state' = [k \in Tasks |-> IF k \in work[t] THEN "done" ELSE state[k]]
    BY <1>3 DEF Finish, Goto
  <2>2. ASSUME NEW u \in Threads, pc'[u] = "task"
        PROVE  \E k \in Tasks : work'[u] = {k} /\ state'[k] = "taken"
    <3>1. u # t /\ pc[u] = "task"
      BY <1>0, <2>1, <2>2
    <3>2. PICK k \in Tasks : work[u] = {k} /\ state[k] = "taken"
      BY <3>1 DEF Hands
    <3>3. k \notin work[t]
      BY <3>1, <3>2 DEF Hands
    <3> QED
      BY <1>0, <2>1, <3>1, <3>2, <3>3
  <2> QED
    BY <1>0, <2>1, <2>2 DEF Hands
<1>4. ASSUME NEW k \in Tasks, NEW for \in Threads \cup {Any},
             Post(k, for) \/ \E t \in Threads : PostFromTask(t, k, for)
      PROVE  Hands'
  <2>1. /\ state[k] = "new" /\ state' = [state EXCEPT ![k] = "queued"]
        /\ pc' = pc /\ work' = work
    BY <1>4 DEF Post, PostFromTask, Push
  <2> QED
    BY <1>0, <1>1, <2>1 DEF Hands
<1>5. CASE Stopped
  <2>1. /\ pc[Main] = "join" /\ pc' = [pc EXCEPT ![Main] = "over"]
        /\ state' = state /\ work' = work
    BY <1>5 DEF Stopped, Goto, taskVars
  <2> QED
    BY <1>0, <2>1 DEF Hands
<1>6. CASE Elsewhere
  BY <1>6 DEF Elsewhere, taskVars, Hands
<1> QED
  BY <1>2, <1>3, <1>4, <1>5, <1>6, TaskCases

PoolInv == Inv0 /\ CurrentKnown /\ Closing /\ Served /\ Hands

LEMMA InitPoolInv == Init => PoolInv
<1>1. Init => CurrentKnown /\ Closing /\ Served
  BY NAssumption DEF Init, CurrentKnown, Closing, Served, Left, Threads, Workers, Main, RunLabels
<1>2. Init => Hands
  BY NAssumption DEF Init, Hands, Threads, Main
<1> QED
  BY <1>1, <1>2, InitInv0 DEF PoolInv

LEMMA StepPoolInv == PoolInv /\ [Next]_vars => PoolInv'
  BY StepInv0, StepCurrent, StepClosing, StepServed, StepHands DEF PoolInv

(* Once stop() has returned nobody runs a task.                            *)
LEMMA ClosedRests == PoolInv /\ Closed => \A t \in Threads : pc[t] # "task"
  BY NAssumption DEF PoolInv, Closed, Closing, Left, Threads, Workers, Main

LEMMA ClosedEmpty == PoolInv /\ Closed => Requested = {} /\ \A k \in Tasks : state[k] # "taken"
<1> SUFFICES ASSUME PoolInv, Closed PROVE Requested = {} /\ \A k \in Tasks : state[k] # "taken"
  OBVIOUS
<1>1. \A t \in Threads : Left(t)
  BY NAssumption DEF PoolInv, Closed, Closing, Left, Threads, Workers, Main
<1>2. ASSUME NEW k \in Tasks, state[k] = "queued" PROVE Stranded(k)
  <2>1. target[k] # Any
    BY <1>1, <1>2 DEF PoolInv, Served
  <2>2. target[k] \in Threads
    BY <2>1 DEF PoolInv, Inv0, TypeOK
  <2> QED
    BY <1>1, <1>2, <2>1, <2>2 DEF Stranded
<1>3. \A k \in Tasks : state[k] # "taken"
  BY <1>1, ClosedRests DEF PoolInv, Served
<1> QED
  BY <1>2, <1>3 DEF Requested

LEMMA PoolStep == PoolInv /\ PoolInv' /\ [Next]_vars => [Pool!Next]_Pool!vars
<1> SUFFICES ASSUME PoolInv, PoolInv', [Next]_vars PROVE [Pool!Next]_Pool!vars
  OBVIOUS
<1>0. /\ state \in [Tasks -> {"new", "queued", "taken", "done"}]
      /\ state' \in [Tasks -> {"new", "queued", "taken", "done"}]
      /\ pc \in [Threads -> MainLabels \cup WorkerLabels \cup RunLabels]
      /\ target \in [Tasks -> Threads \cup {Any}]
      /\ Main \in Threads /\ Any \notin Threads
  BY NAssumption, Halves DEF Any, PoolInv, Inv0, TypeOK, Threads, Main
<1> DEFINE stages == [k \in Tasks |-> Stage(k)]
<1>a. ASSUME NEW t \in Threads, pc[t] \in {"scan", "task"}, pc' = [pc EXCEPT ![t] = "scan"] \/ pc' = [pc EXCEPT ![t] = "task"]
      PROVE  (\A u \in Threads : Left(u)' <=> Left(u)) /\ (Closed' <=> Closed)
  BY <1>0, <1>a DEF Left, Closed
<1>1. ASSUME NEW t \in Threads, NEW k \in Tasks, Take(t, k) PROVE Pool!Start(k)
  <2>1. /\ state[k] = "queued" /\ state' = [state EXCEPT ![k] = "taken"]
        /\ pc[t] = "scan" /\ pc' = [pc EXCEPT ![t] = "task"]
        /\ target[k] \in {t, Any} /\ target' = target
    BY <1>1 DEF Take, Mine, Goto
  <2>2. stages' = [stages EXCEPT ![k] = "RUNNING"] /\ stages[k] = "READY"
    BY <1>0, <2>1 DEF Stage
  <2>4. (\A u \in Threads : Left(u)' <=> Left(u)) /\ (Closed' <=> Closed)
    BY <1>a, <2>1
  <2>5. ~Stranded(k)
    BY <2>1 DEF Stranded, Left
  <2>6. ASSUME NEW j \in Tasks, j # k PROVE j \in Requested' <=> j \in Requested
    <3>1. state'[j] = state[j] /\ target'[j] = target[j] /\ target[j] \in Threads \cup {Any}
      BY <1>0, <2>1, <2>6
    <3>2. Stranded(j)' <=> Stranded(j)
      BY <2>4, <3>1 DEF Stranded
    <3> QED
      BY <3>1, <3>2 DEF Requested
  <2>7. k \notin Requested' /\ k \in Requested /\ Requested \subseteq Tasks /\ Requested' \subseteq Tasks
    BY <1>0, <2>1, <2>5 DEF Requested
  <2>3. Requested' = Requested \ {k} /\ k \in Requested
    BY <2>6, <2>7
  <2> QED
    BY <2>2, <2>3, <2>4 DEF Pool!Start, Pool!Serve, Closed
<1>2. ASSUME NEW t \in Threads, Finish(t) PROVE \E k \in Tasks : Pool!Finish(k)
  <2>1. /\ pc[t] = "task" /\ pc' = [pc EXCEPT ![t] = "scan"]
        /\ state' = [k \in Tasks |-> IF k \in work[t] THEN "done" ELSE state[k]]
        /\ target' = target
    BY <1>2 DEF Finish, Goto
  <2>2. PICK k \in Tasks : work[t] = {k} /\ state[k] = "taken"
    BY <2>1 DEF PoolInv, Hands
  <2>3. stages' = [stages EXCEPT ![k] = "TERM"] /\ stages[k] = "RUNNING"
    BY <1>0, <2>1, <2>2 DEF Stage
  <2>4. (\A u \in Threads : Left(u)' <=> Left(u)) /\ (Closed' <=> Closed)
    BY <1>a, <2>1
  <2>6. \A j \in Tasks : (state'[j] = "queued" <=> state[j] = "queued") /\ target'[j] = target[j]
    BY <1>0, <2>1, <2>2
  <2>7. \A j \in Tasks : Stranded(j)' <=> Stranded(j)
    BY <1>0, <2>4, <2>6 DEF Stranded
  <2>8. Requested' = Requested
    BY <2>6, <2>7 DEF Requested
  <2>5. Pool!Finish(k)
    BY <2>3, <2>4, <2>8 DEF Pool!Finish, Closed
  <2> QED
    BY <2>5
<1>3. ASSUME NEW k \in Tasks, NEW for \in Threads \cup {Any},
             Post(k, for) \/ \E t \in Threads : PostFromTask(t, k, for)
      PROVE  [Pool!Next]_Pool!vars
  <2>1. /\ state[k] = "new" /\ state' = [state EXCEPT ![k] = "queued"] /\ pc' = pc
        /\ target' = [target EXCEPT ![k] = for]
        /\ pc[Main] = "app" \/ \E t \in Threads : pc[t] = "task"
    BY <1>3 DEF Post, PostFromTask, Push
  <2>2. ~Closed
    BY <2>1, ClosedRests DEF Closed
  <2>3. stages' = stages /\ (Closed' <=> Closed)
    BY <1>0, <2>1 DEF Stage, Closed
  <2>4. ASSUME NEW j \in Tasks, j # k PROVE j \in Requested' <=> j \in Requested
    <3>1. state'[j] = state[j] /\ target'[j] = target[j]
      BY <1>0, <2>1, <2>4
    <3>2. Stranded(j)' <=> Stranded(j)
      BY <2>1, <3>1 DEF Stranded, Left
    <3> QED
      BY <3>1, <3>2 DEF Requested
  <2>5. Requested \subseteq Tasks /\ Requested' \subseteq Tasks /\ k \notin Requested
    BY <2>1 DEF Requested
  <2>6. CASE k \in Requested'
    <3>1. Requested' = Requested \cup {k}
      BY <2>4, <2>5, <2>6
    <3>2. Pool!Request(k)
      BY <2>2, <2>3, <3>1 DEF Pool!Request, Closed
    <3> QED
      BY <3>2 DEF Pool!Next
  <2>7. CASE k \notin Requested'
    <3>1. Requested' = Requested
      BY <2>4, <2>5, <2>7
    <3> QED
      BY <2>3, <3>1 DEF Pool!vars, Closed
  <2> QED
    BY <2>6, <2>7
<1>4. CASE Stopped
  <2>1. /\ pc[Main] = "join" /\ pc' = [pc EXCEPT ![Main] = "over"]
        /\ state' = state /\ target' = target
    BY <1>4 DEF Stopped, Goto, taskVars
  <2>2. Closed' /\ \A t \in Threads : Left(t)' <=> Left(t)
    BY <1>0, <2>1 DEF Closed, Left
  <2>3. Requested' = Requested
    BY <2>1, <2>2, SameRequests DEF PoolInv
  <2>4. Requested' = {} /\ \A k \in Tasks : state[k] # "taken"
    <3>1. PoolInv' /\ Closed' => (Requested = {} /\ \A k \in Tasks : state[k] # "taken")'
      BY ClosedEmpty, PTL
    <3> QED
      BY <2>1, <2>2, <3>1
  <2>5. stages' = stages
    BY <2>1 DEF Stage
  <2>6. \A k \in Tasks : stages[k] # "RUNNING"
    <3>1. \A k \in Tasks : stages[k] = Stage(k)
      OBVIOUS
    <3> QED
      BY <1>0, <2>4, <3>1 DEF Stage
  <2>7. (pc[Main] \in {"over", "gone"})' = TRUE
    BY <2>2 DEF Closed
  <2>8. Pool!Close
    BY <2>3, <2>4, <2>5, <2>6, <2>7 DEF Pool!Close
  <2> QED
    BY <2>8 DEF Pool!Next
<1>5. CASE Elsewhere
  <2>1. UNCHANGED <<state, Requested>> /\ (Closed' <=> Closed)
    BY <1>5 DEF Elsewhere, taskVars
  <2>2. stages' = stages
    BY <2>1 DEF Stage
  <2> QED
    BY <2>1, <2>2 DEF Closed, Pool!vars
<1> QED
  BY <1>1, <1>2, <1>3, <1>4, <1>5, TaskCases DEF PoolInv, Pool!Next

(* A plain scheduler implements the pool with any number of threads and    *)
(* tasks, the requests being the tasks that are not stranded: a task that  *)
(* is pushed for a thread still in run() is run by exactly one thread      *)
(* before stop() returns.                                                  *)
THEOREM PoolImplemented == Spec => ImplementsPool
<1>1. Init => Pool!Init
  BY NAssumption DEF Init, Pool!Init, Stage, Requested, Threads, Main
<1> QED
  BY <1>1, InitPoolInv, StepPoolInv, PoolStep, PTL DEF Spec, ImplementsPool, Pool!Spec
=============================================================================
