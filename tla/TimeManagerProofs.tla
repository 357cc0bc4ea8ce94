------------------------- MODULE TimeManagerProofs -------------------------
(* Theorems about TimeManager, for any number of threads and timers, equal *)
(* deadlines and racing resets included.                                   *)
EXTENDS TimeManager, WellFoundedInduction, TLAPS

LEMMA AddToHeapType ==
  ASSUME TypeOK, NEW u \in Users, NEW i \in Timers, NEW deadline, AddToHeap(u, i, heap, deadline)
  PROVE  /\ heap' \subseteq Timers
         /\ tickled' \in BOOLEAN
         /\ pc' \in [Threads -> Labels]
BY DEF AddToHeap, Inserted, TypeOK, Goto, Labels, Threads

(* Every variable keeps its type.                                          *)
LEMMA TypeStep == TypeOK /\ [Next]_vars => TypeOK'
<1> SUFFICES ASSUME TypeOK, [Next]_vars PROVE TypeOK'
  OBVIOUS
<1> USE BoundsAssumption, ThreadsAssumption
        DEF TypeOK, Goto, Move, Threads, userVars, pollVars, heapVars
<1>1. CASE UNCHANGED vars
  BY <1>1 DEF vars
<1>2. ASSUME NEW u \in Users, NEW i \in Timers, NEW period \in Periods, Add(u, i, period) PROVE TypeOK'
  <2>1. next' \in [Timers -> Int] /\ ms' \in [Timers -> Nat]
    BY <1>2 DEF Add
  <2>2. /\ heap' \subseteq Timers
        /\ tickled' \in BOOLEAN
        /\ pc' \in [Threads -> Labels]
    BY <1>2, AddToHeapType DEF Add
  <2>3. QED
    BY <1>2, <2>1, <2>2 DEF Add, Begin
<1>3. ASSUME NEW u \in Users, TickleUser(u) PROVE TypeOK'
  BY <1>3 DEF TickleUser, Labels
<1>4. ASSUME NEW u \in Users, NEW i \in Timers, Cancel(u, i) PROVE TypeOK'
  BY <1>4 DEF Cancel, Begin, Erased
<1>5. ASSUME NEW u \in Users, NEW i \in Timers, Refresh(u, i) PROVE TypeOK'
  BY <1>5 DEF Refresh, Begin, Inserted, Erased
<1>6. ASSUME NEW u \in Users, NEW i \in Timers, NEW period \in Periods, NEW fromNow \in BOOLEAN,
             ResetErase(u, i, period, fromNow)
      PROVE  TypeOK'
  BY <1>6 DEF ResetErase, Begin, Erased, Labels
<1>7. ASSUME NEW u \in Users, NEW i \in Timers, ResetInsert(u, i) PROVE TypeOK'
  <2>1. next' \in [Timers -> Int] /\ ms' \in [Timers -> Nat]
    BY <1>7 DEF ResetInsert
  <2>2. /\ heap' \subseteq Timers
        /\ tickled' \in BOOLEAN
        /\ pc' \in [Threads -> Labels]
    BY <1>7, AddToHeapType DEF ResetInsert
  <2>3. call' \in [Users -> [timer : SUBSET Timers, ms : Nat, fromNow : BOOLEAN]]
    BY <1>7 DEF ResetInsert, NoCall
  <2>4. UNCHANGED <<now, live, edge, calls, cancelled, pollVars>>
    BY <1>7 DEF ResetInsert
  <2>5. QED
    BY <2>1, <2>2, <2>3, <2>4
<1>8. ASSUME NEW t \in Pollers, EnterIdle(t) PROVE TypeOK'
  BY <1>8 DEF EnterIdle, Labels
<1>9. ASSUME NEW t \in Pollers, Peek(t) PROVE TypeOK'
  BY <1>9 DEF Peek, Labels
<1>10. ASSUME NEW t \in Pollers, Ask(t) PROVE TypeOK'
  <2>1. wake' \in [Pollers -> Int]
    <3>1. PICK due \in {next[i] : i \in heap} \cup {now + MaxTimeout} : wake' = [wake EXCEPT ![t] = due]
      BY <1>10 DEF Ask
    <3>2. due \in Int
      OBVIOUS
    <3>3. QED
      BY <3>1, <3>2
  <2>2. pc' \in [Threads -> Labels] /\ tickled' \in BOOLEAN
    BY <1>10 DEF Ask, Labels
  <2>3. QED
    BY <1>10, <2>1, <2>2 DEF Ask
<1>11. ASSUME NEW t \in Pollers, Wake(t) PROVE TypeOK'
  <2>1. edge' \in BOOLEAN
    BY <1>11 DEF Wake
  <2>2. pc' \in [Threads -> Labels]
    BY <1>11 DEF Wake, Labels
  <2>3. UNCHANGED <<now, heapVars, tickled, userVars, clock, batch, extracted>>
    BY <1>11 DEF Wake
  <2>4. wake' \in [Pollers -> Int]
    BY <1>11 DEF Wake
  <2>5. QED
    BY <2>1, <2>2, <2>3, <2>4
<1>12. ASSUME NEW t \in Pollers, ReadClock(t) PROVE TypeOK'
  BY <1>12 DEF ReadClock, Labels
<1>13. ASSUME NEW t \in Pollers, Expire(t) PROVE TypeOK'
  <2>1. heap' \subseteq Timers /\ live' \subseteq Timers
    BY <1>13 DEF Expire
  <2>2. next' \in [Timers -> Int]
    BY <1>13 DEF Expire
  <2>3. pc' \in [Threads -> Labels]
    BY <1>13 DEF Expire, Labels
  <2>4. batch' \in [Pollers -> SUBSET Timers]
    BY <1>13 DEF Expire
  <2>5. extracted' \in [Timers -> 0..2]
    BY <1>13 DEF Expire
  <2>6. clock' \in [Pollers -> Nat] /\ UNCHANGED <<now, ms, tickled, edge, userVars, wake>>
    BY <1>13 DEF Expire
  <2>7. QED
    BY <2>1, <2>2, <2>3, <2>4, <2>5, <2>6
<1>14. ASSUME NEW t \in Pollers, YieldIdle(t) PROVE TypeOK'
  BY <1>14 DEF YieldIdle, Labels
<1>15. CASE Tick
  BY <1>15 DEF Tick
<1> HIDE DEF TypeOK, Goto, Move, userVars, pollVars, heapVars
<1>16. QED
  BY <1>1, <1>2, <1>3, <1>4, <1>5, <1>6, <1>7, <1>8, <1>9, <1>10, <1>11, <1>12, <1>13, <1>14, <1>15
     DEF Next, UserStep, UserCall, PollStep

(* Every variable keeps its type; in particular the calls stay bounded and *)
(* the heap never holds anything but timers.                               *)
THEOREM TypeCorrect == Spec => []TypeOK
<1>1. Init => TypeOK
  <2> SUFFICES ASSUME Init PROVE TypeOK
    OBVIOUS
  <2>1. pc \in [Threads -> Labels]
    BY DEF Init, Labels
  <2>2. call \in [Users -> [timer : SUBSET Timers, ms : Nat, fromNow : BOOLEAN]]
    BY DEF Init, NoCall
  <2>3. /\ now \in 0..MaxTime /\ calls \in 0..MaxCalls
        /\ next \in [Timers -> Int] /\ ms \in [Timers -> Nat]
        /\ wake \in [Pollers -> Int] /\ clock \in [Pollers -> Nat]
        /\ extracted \in [Timers -> 0..2]
    BY BoundsAssumption DEF Init
  <2>4. /\ heap \subseteq Timers /\ live \subseteq Timers /\ cancelled \subseteq Timers
        /\ tickled \in BOOLEAN /\ edge \in BOOLEAN
        /\ batch \in [Pollers -> SUBSET Timers]
    BY DEF Init
  <2>5. QED
    BY <2>1, <2>2, <2>3, <2>4 DEF TypeOK
<1>2. QED
  BY <1>1, TypeStep, PTL DEF Spec

---------------------------------------------------------------------------
(* A timer whose cancel() succeeded has no callback any more, and whatever *)
(* a round of listExpiredCb adds to its batch had one.                     *)
Disarmed == cancelled \cap live = {}

LEMMA DisarmedStep == TypeOK /\ Disarmed /\ [Next]_vars => Disarmed'
<1> SUFFICES ASSUME Disarmed, [Next]_vars PROVE Disarmed'
  OBVIOUS
<1>1. CASE UNCHANGED vars
  BY <1>1 DEF vars, userVars, heapVars, Disarmed
<1>2. ASSUME NEW u \in Users, UserStep(u) \/ UserCall(u) PROVE Disarmed'
  BY <1>2 DEF UserStep, UserCall, TickleUser, ResetInsert, Add, Cancel, Refresh, ResetErase,
              userVars, heapVars, Disarmed
<1>3. ASSUME NEW t \in Pollers, PollStep(t) PROVE Disarmed'
  BY <1>3 DEF PollStep, EnterIdle, Peek, Ask, Wake, ReadClock, Expire, YieldIdle,
              userVars, heapVars, Disarmed
<1>4. CASE Tick
  BY <1>4 DEF Tick, userVars, heapVars, Disarmed
<1>5. QED
  BY <1>1, <1>2, <1>3, <1>4 DEF Next

LEMMA BatchLive ==
  ASSUME TypeOK, [Next]_vars, NEW t \in Pollers
  PROVE  batch'[t] \ batch[t] \subseteq live
<1>1. CASE UNCHANGED vars
  BY <1>1 DEF vars, pollVars
<1>2. ASSUME NEW u \in Users, UserStep(u) \/ UserCall(u) PROVE UNCHANGED batch
  BY <1>2 DEF UserStep, UserCall, TickleUser, ResetInsert, Add, Cancel, Refresh, ResetErase, pollVars
<1>3. ASSUME NEW p \in Pollers, EnterIdle(p) \/ Peek(p) \/ Ask(p) \/ Wake(p) \/ ReadClock(p)
      PROVE  UNCHANGED batch
  BY <1>3 DEF EnterIdle, Peek, Ask, Wake, ReadClock, pollVars
<1>4. ASSUME NEW p \in Pollers, Expire(p) \/ YieldIdle(p)
      PROVE  batch'[t] \ batch[t] \subseteq live
  BY <1>4 DEF Expire, YieldIdle, TypeOK
<1>5. CASE Tick
  BY <1>5 DEF Tick, pollVars
<1>6. QED
  BY <1>1, <1>2, <1>3, <1>4, <1>5 DEF Next, PollStep

(* No callback is extracted after its cancel() returned true, for any      *)
(* number of threads resetting and polling the timer meanwhile.            *)
THEOREM CancelledForGood == Spec => CancelFinal
<1>1. Init => Disarmed
  BY DEF Init, Disarmed
<1>2. TypeOK /\ Disarmed /\ [Next]_vars
      => [\A t \in Pollers : (batch'[t] \ batch[t]) \cap cancelled = {}]_vars
  BY BatchLive DEF Disarmed
<1>3. QED
  BY <1>1, <1>2, TypeCorrect, DisarmedStep, PTL DEF Spec, CancelFinal

---------------------------------------------------------------------------
(* A one-shot timer that still has its callback was never extracted.       *)
Unfired == \A i \in Timers \ Recurring : i \in live => extracted[i] = 0

LEMMA OneShotStep ==
  TypeOK /\ Unfired /\ OneShotOnce /\ [Next]_vars => Unfired' /\ OneShotOnce'
<1> SUFFICES ASSUME TypeOK, Unfired, OneShotOnce, [Next]_vars PROVE Unfired' /\ OneShotOnce'
  OBVIOUS
<1> USE DEF Unfired, OneShotOnce, heapVars, userVars, pollVars
<1>1. CASE UNCHANGED vars
  BY <1>1 DEF vars
<1>2. ASSUME NEW u \in Users, UserStep(u) \/ UserCall(u) PROVE Unfired' /\ OneShotOnce'
  BY <1>2 DEF UserStep, UserCall, TickleUser, ResetInsert, Add, Cancel, Refresh, ResetErase
<1>3. ASSUME NEW t \in Pollers, Expire(t) PROVE Unfired' /\ OneShotOnce'
  BY <1>3 DEF Expire, TypeOK
<1>4. ASSUME NEW t \in Pollers,
             EnterIdle(t) \/ Peek(t) \/ Ask(t) \/ Wake(t) \/ ReadClock(t) \/ YieldIdle(t)
      PROVE  Unfired' /\ OneShotOnce'
  BY <1>4 DEF EnterIdle, Peek, Ask, Wake, ReadClock, YieldIdle
<1>5. CASE Tick
  BY <1>5 DEF Tick
<1>6. QED
  BY <1>1, <1>2, <1>3, <1>4, <1>5 DEF Next, PollStep

(* The callback of a one-shot timer is extracted at most once.             *)
THEOREM FiresOnce == Spec => []OneShotOnce
<1>1. Init => Unfired /\ OneShotOnce
  BY DEF Init, Unfired, OneShotOnce
<1>2. QED
  BY <1>1, OneShotStep, TypeCorrect, PTL DEF Spec

---------------------------------------------------------------------------
(* The handshake of m_tickle: once every poller sleeps and no wake-up is   *)
(* on its way, the next timer inserted at the front will tickle.           *)
WakeComing == edge \/ \E u \in Users : pc[u] = "tickle"
Handshake == tickled => WakeComing \/ \E t \in Pollers : pc[t] # "asleep"

(* refresh() and reset() move a deadline, never before what the timer's    *)
(* period allows: refresh() needs no tickle.                               *)
Soon == \A i \in Timers : next[i] <= now + ms[i]
PastClock == \A t \in Pollers : clock[t] <= now

Prompt == Soon /\ PastClock /\ Handshake /\ NoLateTimer

LEMMA SoonStep ==
  TypeOK /\ Soon /\ PastClock /\ [Next]_vars => Soon' /\ PastClock'
<1> SUFFICES ASSUME TypeOK, Soon, PastClock, [Next]_vars PROVE Soon' /\ PastClock'
  OBVIOUS
<1> USE BoundsAssumption DEF TypeOK, Soon, PastClock, heapVars, userVars, pollVars
<1>1. CASE UNCHANGED vars
  BY <1>1 DEF vars
<1>2. ASSUME NEW u \in Users, NEW i \in Timers, NEW period \in Periods, Add(u, i, period)
      PROVE  Soon' /\ PastClock'
  BY <1>2 DEF Add
<1>3. ASSUME NEW u \in Users, TickleUser(u) PROVE Soon' /\ PastClock'
  BY <1>3 DEF TickleUser
<1>4. ASSUME NEW u \in Users, NEW i \in Timers, Cancel(u, i) PROVE Soon' /\ PastClock'
  BY <1>4 DEF Cancel
<1>5. ASSUME NEW u \in Users, NEW i \in Timers, Refresh(u, i) PROVE Soon' /\ PastClock'
  BY <1>5 DEF Refresh
<1>6. ASSUME NEW u \in Users, NEW i \in Timers, NEW period \in Periods, NEW fromNow \in BOOLEAN,
             ResetErase(u, i, period, fromNow)
      PROVE  Soon' /\ PastClock'
  BY <1>6 DEF ResetErase
<1>7. ASSUME NEW u \in Users, NEW i \in Timers, ResetInsert(u, i) PROVE Soon' /\ PastClock'
  <2>1. /\ ms' = [ms EXCEPT ![i] = call[u].ms]
        /\ UNCHANGED <<now, clock>>
    BY <1>7 DEF ResetInsert
  <2>2. PICK start \in {now, next[i] - ms[i]} : next' = [next EXCEPT ![i] = start + call[u].ms]
    BY <1>7 DEF ResetInsert
  <2>3. start \in Int /\ start <= now /\ call[u].ms \in Nat
    OBVIOUS
  <2>4. QED
    BY <2>1, <2>2, <2>3
<1>8. ASSUME NEW t \in Pollers, EnterIdle(t) \/ Peek(t) \/ Ask(t) \/ Wake(t) \/ YieldIdle(t)
      PROVE  Soon' /\ PastClock'
  BY <1>8 DEF EnterIdle, Peek, Ask, Wake, YieldIdle
<1>9. ASSUME NEW t \in Pollers, ReadClock(t) PROVE Soon' /\ PastClock'
  BY <1>9 DEF ReadClock
<1>10. ASSUME NEW t \in Pollers, Expire(t) PROVE Soon' /\ PastClock'
  <2>1. UNCHANGED <<now, ms>> /\ clock' = [clock EXCEPT ![t] = 0]
    BY <1>10 DEF Expire
  <2>2. ASSUME NEW i \in Timers PROVE next'[i] \in {clock[t] + ms[i], next[i]}
    BY <1>10 DEF Expire
  <2>3. QED
    BY <2>1, <2>2
<1>11. CASE Tick
  BY <1>11 DEF Tick
<1> HIDE DEF TypeOK, Soon, PastClock
<1>12. QED
  BY <1>1, <1>2, <1>3, <1>4, <1>5, <1>6, <1>7, <1>8, <1>9, <1>10, <1>11
     DEF Next, UserStep, UserCall, PollStep

(* Inserting a timer: it becomes the earliest one and somebody will        *)
(* tickle, or an earlier timer is in the heap already.                     *)
LEMMA AddToHeapPrompt ==
  ASSUME TypeOK, Handshake, NoLateTimer, NEW u \in Users, NEW i \in Timers, NEW d \in Int,
         pc[u] # "tickle",
         next' = [next EXCEPT ![i] = d],
         AddToHeap(u, i, heap, next'),
         UNCHANGED <<edge, wake>>
  PROVE  Handshake' /\ NoLateTimer'
<1> DEFINE atFront == ~tickled /\ \A j \in heap : next'[i] <= next'[j]
<1>1. /\ heap' \subseteq heap \cup {i}
      /\ tickled' = (tickled \/ atFront)
      /\ pc' = [pc EXCEPT ![u] = IF atFront THEN "tickle" ELSE "free"]
  BY DEF AddToHeap, Inserted, Goto
<1>2. u \in Threads /\ Pollers \subseteq Threads /\ u \notin Pollers
  BY ThreadsAssumption DEF Threads
<1>3. CASE atFront
  <2>1. pc'[u] = "tickle"
    BY <1>1, <1>2, <1>3 DEF TypeOK
  <2>2. QED
    BY <2>1 DEF Handshake, WakeComing, NoLateTimer
<1>4. CASE ~atFront
  <2>1. \A t \in Threads \ {u} : pc'[t] = pc[t]
    BY <1>1, <1>2 DEF TypeOK
  <2>2. WakeComing => WakeComing'
    BY <2>1 DEF WakeComing, Threads
  <2>3. \A t \in Pollers : pc'[t] = pc[t]
    BY <2>1, <1>2
  <2>4. Handshake'
    BY <1>1, <1>4, <2>2, <2>3 DEF Handshake
  <2>5. CASE tickled
    BY <2>5, <2>2, <2>3, <2>4 DEF Handshake, WakeComing, NoLateTimer
  <2>6. CASE ~tickled
    <3>1. PICK j \in heap : ~(next'[i] <= next'[j])
      BY <1>4, <2>6
    <3>2. /\ j \in Timers /\ next[j] \in Int
          /\ next'[i] = d
          /\ \A k \in Timers \ {i} : next'[k] = next[k]
      BY DEF TypeOK
    <3>3. j # i /\ next'[j] = next[j] /\ next[j] < d
      BY <3>1, <3>2
    <3>4. CASE WakeComing \/ \E t \in Pollers : pc[t] # "asleep"
      BY <3>4, <2>2, <2>3, <2>4 DEF WakeComing, NoLateTimer
    <3>5. CASE \E t \in Pollers : \A k \in heap : wake[t] <= next[k]
      <4>1. PICK t \in Pollers : \A k \in heap : wake[t] <= next[k]
        BY <3>5
      <4>2. wake'[t] = wake[t] /\ wake[t] \in Int
        BY DEF TypeOK
      <4>3. ASSUME NEW k \in heap' PROVE wake'[t] <= next'[k]
        <5>1. CASE k = i
          BY <5>1, <3>2, <3>3, <4>1, <4>2
        <5>2. CASE k # i
          BY <5>2, <1>1, <3>2, <4>1, <4>2 DEF TypeOK
        <5>3. QED
          BY <5>1, <5>2
      <4>4. QED
        BY <2>4, <4>3 DEF NoLateTimer
    <3>6. QED
      BY <3>1, <3>4, <3>5 DEF NoLateTimer, WakeComing
  <2>7. QED
    BY <2>4, <2>5, <2>6
<1>5. QED
  BY <1>3, <1>4

LEMMA PromptStep ==
  TypeOK /\ Prompt /\ [Next]_vars => Handshake' /\ NoLateTimer'
<1> SUFFICES ASSUME TypeOK, Prompt, [Next]_vars PROVE Handshake' /\ NoLateTimer'
  OBVIOUS
<1>a. Pollers \subseteq Threads /\ Users \subseteq Threads /\ Users \cap Pollers = {} /\ Pollers # {}
  BY ThreadsAssumption DEF Threads
<1> USE DEF Handshake, NoLateTimer, WakeComing
<1>1. CASE UNCHANGED vars
  BY <1>1 DEF vars, heapVars, pollVars, Prompt
<1>2. ASSUME NEW u \in Users, NEW i \in Timers, NEW period \in Periods, Add(u, i, period)
      PROVE  Handshake' /\ NoLateTimer'
  <2>1. now + period \in Int
    BY BoundsAssumption DEF TypeOK
  <2>2. next' = [next EXCEPT ![i] = now + period] /\ pc[u] = "free"
        /\ AddToHeap(u, i, heap, next') /\ UNCHANGED <<edge, wake>>
    BY <1>2 DEF Add, Begin, pollVars
  <2> HIDE DEF Handshake, NoLateTimer, WakeComing
  <2>3. QED
    BY <2>1, <2>2, AddToHeapPrompt DEF Prompt
<1>3. ASSUME NEW u \in Users, TickleUser(u) PROVE Handshake' /\ NoLateTimer'
  <2>1. CASE \E t \in Pollers : pc[t] # "work"
    BY <1>3, <2>1 DEF TickleUser
  <2>2. CASE \A t \in Pollers : pc[t] = "work"
    BY <1>3, <2>2, <1>a DEF TickleUser, Goto, TypeOK
  <2>3. QED
    BY <2>1, <2>2
<1>4. ASSUME NEW u \in Users, NEW i \in Timers, Cancel(u, i) PROVE Handshake' /\ NoLateTimer'
  BY <1>4 DEF Cancel, Erased, pollVars, Prompt
<1>5. ASSUME NEW u \in Users, NEW i \in Timers, Refresh(u, i) PROVE Handshake' /\ NoLateTimer'
  <2>1. UNCHANGED <<tickled, edge, pc, wake>> /\ next' = [next EXCEPT ![i] = now + ms[i]]
    BY <1>5 DEF Refresh, pollVars
  <2>2. PICK j \in heap : next[j] = next[i]
    BY <1>5 DEF Refresh, Erased, Twins
  <2>3. heap' \subseteq heap \cup {i} /\ next[i] <= next'[i]
    BY <1>5, <2>1 DEF Refresh, Erased, Inserted, Prompt, Soon, TypeOK
  <2>4. ASSUME NEW t \in Pollers, \A k \in heap : wake[t] <= next[k], NEW k \in heap'
        PROVE  wake'[t] <= next'[k]
    <3>1. wake[t] <= next[i] /\ wake[t] \in Int
      BY <2>2, <2>4 DEF TypeOK
    <3>2. CASE k = i
      BY <3>1, <3>2, <2>1, <2>3 DEF TypeOK
    <3>3. CASE k # i
      BY <3>3, <2>1, <2>3, <2>4 DEF TypeOK
    <3>4. QED
      BY <3>2, <3>3
  <2>5. QED
    BY <2>1, <2>2, <2>4 DEF Prompt
<1>6. ASSUME NEW u \in Users, NEW i \in Timers, NEW period \in Periods, NEW fromNow \in BOOLEAN,
             ResetErase(u, i, period, fromNow)
      PROVE  Handshake' /\ NoLateTimer'
  <2>1. /\ pc[u] = "free" /\ pc' = [pc EXCEPT ![u] = "reset"]
        /\ heap' \subseteq heap
        /\ UNCHANGED <<next, tickled, edge, wake>>
    BY <1>6 DEF ResetErase, Begin, Erased, Goto, pollVars
  <2>2. QED
    BY <2>1, <1>a DEF Prompt, TypeOK
<1>7. ASSUME NEW u \in Users, NEW i \in Timers, ResetInsert(u, i) PROVE Handshake' /\ NoLateTimer'
  <2>1. PICK start \in {now, next[i] - ms[i]} : next' = [next EXCEPT ![i] = start + call[u].ms]
    BY <1>7 DEF ResetInsert
  <2>2. start + call[u].ms \in Int
    BY DEF TypeOK
  <2>3. pc[u] = "reset" /\ AddToHeap(u, i, heap, next') /\ UNCHANGED <<edge, wake>>
    BY <1>7 DEF ResetInsert, pollVars
  <2> HIDE DEF Handshake, NoLateTimer, WakeComing
  <2>4. QED
    BY <2>1, <2>2, <2>3, AddToHeapPrompt DEF Prompt
<1>8. ASSUME NEW t \in Pollers, EnterIdle(t) \/ Peek(t) \/ Wake(t) \/ ReadClock(t) \/ Expire(t) \/ YieldIdle(t)
      PROVE  Handshake' /\ NoLateTimer'
  <2>1. \E label \in Labels : label # "asleep" /\ pc' = [pc EXCEPT ![t] = label]
    BY <1>8 DEF EnterIdle, Peek, Wake, ReadClock, Expire, YieldIdle, Move, Goto, Labels
  <2>2. pc'[t] # "asleep"
    BY <2>1, <1>a DEF TypeOK
  <2>3. QED
    BY <2>2
<1>9. ASSUME NEW t \in Pollers, Ask(t) PROVE Handshake' /\ NoLateTimer'
  <2>1. PICK due : (\A i \in heap : due <= next[i]) /\ wake' = [wake EXCEPT ![t] = due]
    BY <1>9 DEF Ask
  <2>2. UNCHANGED <<heap, next>> /\ tickled' = FALSE
    BY <1>9 DEF Ask, heapVars
  <2>3. \A i \in heap' : wake'[t] <= next'[i]
    BY <2>1, <2>2 DEF TypeOK
  <2>4. QED
    BY <2>2, <2>3
<1>10. CASE Tick
  BY <1>10 DEF Tick, heapVars, pollVars, Prompt
<1> HIDE DEF Handshake, NoLateTimer, WakeComing
<1>11. QED
  BY <1>1, <1>2, <1>3, <1>4, <1>5, <1>6, <1>7, <1>8, <1>9, <1>10
     DEF Next, UserStep, UserCall, PollStep

(* The pollers never all sleep past the earliest deadline with no wake-up  *)
(* on its way, whatever cancel(), refresh() and reset() do meanwhile.      *)
THEOREM PollersPrompt == Spec => []NoLateTimer
<1>1. Init => Prompt
  BY DEF Init, Prompt, Soon, PastClock, Handshake, NoLateTimer
<1>2. TypeOK /\ Prompt /\ [Next]_vars => Prompt'
  BY SoonStep, PromptStep DEF Prompt
<1>3. Prompt => NoLateTimer
  BY DEF Prompt
<1>4. QED
  BY <1>1, <1>2, <1>3, TypeCorrect, PTL DEF Spec

---------------------------------------------------------------------------
(* The heap compares deadlines only, so that a timer can be lost when it   *)
(* gets the deadline of another.  Equal deadlines of timers that are in    *)
(* the heap or armed are the only way to lose one.                         *)
DistinctDeadlines == \A i, j \in heap \cup live : i # j => next[i] # next[j]

(* The timer of a reset() in progress is out of the heap, no other reset() *)
(* has it, and its callback is there unless it was cancelled; no deadline  *)
(* is before the timer's period.                                           *)
MovedOnce ==
  /\ \A u \in Users : pc[u] = "reset" =>
       \E i \in Timers : call[u].timer = {i} /\ i \notin heap /\ i \in live \cup cancelled
  /\ \A u, v \in Users : pc[u] = "reset" /\ pc[v] = "reset" /\ call[u].timer = call[v].timer => u = v
StartInPast == /\ \A i \in Timers : next[i] - ms[i] \in Nat
               /\ \A u \in Users : call[u].ms \in Nat
Kept == MovedOnce /\ NotForgotten

(* A set of natural numbers that is not empty has a least element.         *)
LEMMA LeastNat ==
  ASSUME NEW S \in SUBSET Nat, S # {}
  PROVE  \E x \in S : \A y \in S : x <= y
<1> DEFINE R == OpToRel(<, Nat)
<1>1. \A x, y \in Nat : y < x => <<y, x>> \in R
  BY DEF OpToRel
<1>2. IsWellFoundedOn(R, Nat)
  BY NatLessThanWellFounded
<1> HIDE DEF R
<1>3. \E x \in S : \A y \in S : ~(<<y, x>> \in R)
  BY <1>2, WFMin, Zenon
<1>4. \A x, y \in S : x \in Nat /\ y \in Nat /\ (~(y < x) => x <= y)
  OBVIOUS
<1> QED
  BY <1>1, <1>3, <1>4

(* Every deadline is a start that is not negative and a period.            *)
LEMMA StartStep == TypeOK /\ StartInPast /\ [Next]_vars => StartInPast'
<1> SUFFICES ASSUME TypeOK, StartInPast, [Next]_vars PROVE StartInPast'
  OBVIOUS
<1> USE BoundsAssumption DEF TypeOK, StartInPast, heapVars, userVars
<1>1. CASE UNCHANGED vars
  BY <1>1 DEF vars
<1>2. ASSUME NEW u \in Users, NEW i \in Timers, NEW period \in Periods, Add(u, i, period)
      PROVE  StartInPast'
  BY <1>2 DEF Add
<1>3. ASSUME NEW u \in Users, TickleUser(u) \/ \E i \in Timers : Cancel(u, i) PROVE StartInPast'
  BY <1>3 DEF TickleUser, Cancel
<1>4. ASSUME NEW u \in Users, NEW i \in Timers, Refresh(u, i) PROVE StartInPast'
  BY <1>4 DEF Refresh
<1>5. ASSUME NEW u \in Users, NEW i \in Timers, NEW period \in Periods, NEW fromNow \in BOOLEAN,
             ResetErase(u, i, period, fromNow)
      PROVE  StartInPast'
  BY <1>5 DEF ResetErase
<1>6. ASSUME NEW u \in Users, NEW i \in Timers, ResetInsert(u, i) PROVE StartInPast'
  <2>1. PICK start \in {now, next[i] - ms[i]} : next' = [next EXCEPT ![i] = start + call[u].ms]
    BY <1>6 DEF ResetInsert
  <2>2. start \in Nat /\ call[u].ms \in Nat /\ (start + call[u].ms) - call[u].ms = start
    OBVIOUS
  <2>3. ms' = [ms EXCEPT ![i] = call[u].ms] /\ call' = [call EXCEPT ![u] = NoCall]
    BY <1>6 DEF ResetInsert
  <2>4. \A j \in Timers : next'[j] - ms'[j] \in Nat
    BY <2>1, <2>2, <2>3
  <2> QED
    BY <2>3, <2>4 DEF NoCall
<1>7. ASSUME NEW t \in Pollers,
             EnterIdle(t) \/ Peek(t) \/ Ask(t) \/ Wake(t) \/ ReadClock(t) \/ YieldIdle(t)
      PROVE  StartInPast'
  BY <1>7 DEF EnterIdle, Peek, Ask, Wake, ReadClock, YieldIdle
<1>8. ASSUME NEW t \in Pollers, Expire(t) PROVE StartInPast'
  <2>1. UNCHANGED <<ms, call>>
    BY <1>8 DEF Expire
  <2>2. ASSUME NEW i \in Timers PROVE next'[i] \in {clock[t] + ms[i], next[i]}
    BY <1>8 DEF Expire
  <2> QED
    BY <2>1, <2>2
<1>9. CASE Tick
  BY <1>9 DEF Tick
<1> HIDE DEF TypeOK, StartInPast
<1> QED
  BY <1>1, <1>2, <1>3, <1>4, <1>5, <1>6, <1>7, <1>8, <1>9
     DEF Next, UserStep, UserCall, PollStep

(* A recurring timer of the same round with the same period whose deadline *)
(* was the earliest is inserted again, or finds a timer that stays there.  *)
LEMMA RearmedOrTwin ==
  ASSUME TypeOK, StartInPast, DistinctDeadlines', NEW t \in Pollers, Expire(t),
         NEW i \in live', i \in heap, next[i] < clock[t]
  PROVE  i \in heap'
<1> DEFINE due == {k \in heap : next[k] < clock[t]}
           again == due \cap Recurring
           same == {k \in again : ms[k] = ms[i]}
           dropped == {k \in again : \/ \E j \in heap \ due : next[j] = clock[t] + ms[k]
                                     \/ \E j \in again : next[j] < next[k] /\ ms[j] = ms[k]}
<1>1. /\ heap' = (heap \ due) \cup (again \ dropped)
      /\ next' = [k \in Timers |-> IF k \in again THEN clock[t] + ms[k] ELSE next[k]]
      /\ live' = live \ (due \ Recurring)
  BY DEF Expire
<1>2. i \in again /\ i \in same /\ same \subseteq again /\ again \subseteq Timers /\ heap \subseteq Timers
  BY <1>1 DEF TypeOK
<1>3. PICK k \in same : \A j \in same : next[k] <= next[j]
  <2>1. \A j \in Timers : next[j] \in Nat
    BY DEF StartInPast, TypeOK
  <2>2. {next[j] : j \in same} \in SUBSET Nat /\ {next[j] : j \in same} # {}
    BY <1>2, <2>1
  <2> HIDE DEF same
  <2>3. \E x \in {next[j] : j \in same} : \A y \in {next[j] : j \in same} : x <= y
    BY <2>2, LeastNat
  <2> QED
    BY <2>3
<1>4. k \in again /\ ms[k] = ms[i] /\ next'[k] = next'[i]
  BY <1>1, <1>2, <1>3
<1>5. ~\E j \in again : next[j] < next[k] /\ ms[j] = ms[k]
  BY <1>2, <1>3, <1>4 DEF TypeOK
<1> SUFFICES ASSUME i \notin heap' PROVE FALSE
  OBVIOUS
<1>6. CASE k \in heap'
  BY <1>4, <1>6 DEF DistinctDeadlines
<1>7. CASE k \notin heap'
  <2>1. PICK j \in heap \ due : next[j] = clock[t] + ms[k]
    BY <1>1, <1>4, <1>5, <1>7
  <2>2. j \in heap' /\ next'[j] = next[j] /\ next'[i] = clock[t] + ms[i]
    BY <1>1, <1>2, <2>1
  <2> QED
    BY <1>4, <2>1, <2>2 DEF DistinctDeadlines
<1> QED
  BY <1>6, <1>7

LEMMA KeptStep ==
  TypeOK /\ StartInPast /\ DistinctDeadlines /\ DistinctDeadlines' /\ Kept /\ [Next]_vars => Kept'
<1> SUFFICES ASSUME TypeOK, StartInPast, DistinctDeadlines, DistinctDeadlines', Kept, [Next]_vars
             PROVE  Kept'
  OBVIOUS
<1>a. Users \subseteq Threads /\ Pollers \subseteq Threads /\ Users \cap Pollers = {}
  BY ThreadsAssumption DEF Threads
<1>b. heap \subseteq Timers /\ live \subseteq Timers
      /\ pc \in [Threads -> Labels] /\ call \in [Users -> [timer : SUBSET Timers, ms : Nat, fromNow : BOOLEAN]]
  BY DEF TypeOK
(* Under the hypothesis find() and insert() get the timer they are meant for. *)
<1>c. ASSUME NEW i \in live PROVE Twins(i) = heap \cap {i}
  BY DEF Twins, DistinctDeadlines
<1>d. ASSUME NEW i \in live', NEW S \in SUBSET Timers, i \notin S, heap' = Inserted(S, i, next')
      PROVE  heap' = S \cup {i}
  BY <1>d DEF Inserted, DistinctDeadlines
<1>1. CASE UNCHANGED vars
  BY <1>1 DEF vars, heapVars, userVars, Kept, MovedOnce, NotForgotten
<1>2. ASSUME NEW u \in Users, NEW i \in Timers, NEW period \in Periods, Add(u, i, period)
      PROVE  Kept'
  <2>1. /\ pc[u] = "free" /\ i \notin live \cup cancelled /\ live' = live \cup {i}
        /\ heap' = Inserted(heap, i, next')
        /\ UNCHANGED <<call, cancelled>>
    BY <1>2 DEF Add, Begin, AddToHeap
  <2>2. heap' = heap \cup {i}
    <3>1. CASE i \in heap
      BY <2>1, <3>1 DEF Inserted
    <3>2. CASE i \notin heap
      BY <1>b, <1>d, <2>1, <3>2
    <3> QED
      BY <3>1, <3>2
  <2>3. \A v \in Users : (pc'[v] = "reset") <=> (pc[v] = "reset")
    BY <1>2, <1>a, <1>b, <2>1 DEF Add, AddToHeap, Goto
  <2> QED
    BY <2>1, <2>2, <2>3 DEF Kept, MovedOnce, NotForgotten
<1>3. ASSUME NEW u \in Users, TickleUser(u) PROVE Kept'
  <2>1. \A v \in Users : (pc'[v] = "reset") <=> (pc[v] = "reset")
    BY <1>3, <1>a, <1>b DEF TickleUser, Goto
  <2> QED
    BY <1>3, <2>1 DEF TickleUser, heapVars, userVars, Kept, MovedOnce, NotForgotten
<1>4. ASSUME NEW u \in Users, NEW i \in Timers, Cancel(u, i) PROVE Kept'
  <2>1. /\ i \in live /\ live' = live \ {i} /\ cancelled' = cancelled \cup {i}
        /\ UNCHANGED <<pc, call>>
    BY <1>4 DEF Cancel
  <2>2. heap' = heap \ {i}
    BY <1>4, <1>c, <2>1 DEF Cancel, Erased
  <2> QED
    BY <2>1, <2>2 DEF Kept, MovedOnce, NotForgotten
<1>5. ASSUME NEW u \in Users, NEW i \in Timers, Refresh(u, i) PROVE Kept'
  <2>1. i \in live /\ UNCHANGED <<live, cancelled, pc, call>>
    BY <1>5 DEF Refresh
  <2>2. PICK rest \in Erased(i) : heap' = Inserted(rest, i, next')
    BY <1>5 DEF Refresh
  <2>3. i \in heap /\ rest = heap \ {i}
    BY <1>c, <2>1, <2>2 DEF Erased
  <2>a. rest \in SUBSET Timers /\ i \notin rest /\ i \in live'
    BY <1>b, <2>1, <2>3
  <2>b. heap' = rest \cup {i}
    BY <1>d, <2>2, <2>a
  <2>4. heap' = heap
    BY <2>3, <2>b
  <2> QED
    BY <2>1, <2>4 DEF Kept, MovedOnce, NotForgotten
<1>6. ASSUME NEW u \in Users, NEW i \in Timers, NEW period \in Periods, NEW fromNow \in BOOLEAN,
             ResetErase(u, i, period, fromNow)
      PROVE  Kept'
  <2>1. /\ pc[u] = "free" /\ i \in live /\ pc' = [pc EXCEPT ![u] = "reset"]
        /\ UNCHANGED <<live, cancelled>>
        /\ call' = [call EXCEPT ![u] = [timer |-> {i}, ms |-> period, fromNow |-> fromNow]]
    BY <1>6 DEF ResetErase, Begin, Goto
  <2>2. i \in heap /\ heap' = heap \ {i}
    BY <1>6, <1>c, <2>1 DEF ResetErase, Erased
  <2>3. /\ pc'[u] = "reset" /\ call'[u].timer = {i}
        /\ \A v \in Users : v # u => pc'[v] = pc[v] /\ call'[v] = call[v]
    BY <1>a, <1>b, <2>1
  <2>4. \A v \in Users : v # u /\ pc[v] = "reset" => call[v].timer # {i}
    BY <2>2 DEF Kept, MovedOnce
  <2>5. MovedOnce'
    BY <2>1, <2>2, <2>3, <2>4 DEF Kept, MovedOnce
  <2>6. NotForgotten'
    BY <2>1, <2>2, <2>3 DEF Kept, NotForgotten
  <2> QED
    BY <2>5, <2>6 DEF Kept
<1>7. ASSUME NEW u \in Users, NEW i \in Timers, ResetInsert(u, i) PROVE Kept'
  <2>1. /\ pc[u] = "reset" /\ call[u].timer = {i} /\ heap' = Inserted(heap, i, next')
        /\ UNCHANGED <<live, cancelled>> /\ call' = [call EXCEPT ![u] = NoCall]
    BY <1>7 DEF ResetInsert, AddToHeap
  <2>2. pc'[u] # "reset" /\ \A v \in Users : v # u => pc'[v] = pc[v] /\ call'[v] = call[v]
    BY <1>7, <1>a, <1>b, <2>1 DEF ResetInsert, AddToHeap, Goto
  <2>3. heap \subseteq heap' /\ heap' \subseteq heap \cup {i} /\ (i \in live => i \in heap')
    <3>1. i \notin heap
      BY <2>1 DEF Kept, MovedOnce
    <3>2. heap \subseteq heap' /\ heap' \subseteq heap \cup {i}
      BY <2>1 DEF Inserted
    <3>3. ASSUME i \in live PROVE i \in heap'
      <4>1. i \in live' /\ heap \in SUBSET Timers
        BY <1>b, <2>1, <3>3
      <4>2. heap' = heap \cup {i}
        BY <1>d, <2>1, <3>1, <4>1
      <4> QED
        BY <4>2
    <3> QED
      BY <3>2, <3>3
  <2>4. \A v \in Users : v # u /\ pc[v] = "reset" => call[v].timer # {i}
    BY <2>1 DEF Kept, MovedOnce
  <2>5. MovedOnce'
    BY <2>1, <2>2, <2>3, <2>4 DEF Kept, MovedOnce
  <2>6. NotForgotten'
    BY <2>1, <2>2, <2>3 DEF Kept, NotForgotten
  <2> QED
    BY <2>5, <2>6 DEF Kept
<1>8. ASSUME NEW t \in Pollers, PollStep(t) PROVE UNCHANGED <<call, cancelled>>
      /\ \A v \in Users : pc'[v] = pc[v]
  BY <1>8, <1>a, <1>b DEF PollStep, EnterIdle, Peek, Ask, Wake, ReadClock, Expire, YieldIdle,
                         Move, Goto, userVars
<1>9. ASSUME NEW t \in Pollers,
             EnterIdle(t) \/ Peek(t) \/ Ask(t) \/ Wake(t) \/ ReadClock(t) \/ YieldIdle(t)
      PROVE  Kept'
  <2>1. UNCHANGED heapVars
    BY <1>9 DEF EnterIdle, Peek, Ask, Wake, ReadClock, YieldIdle
  <2> QED
    BY <1>8, <1>9, <2>1 DEF PollStep, heapVars, Kept, MovedOnce, NotForgotten
<1>10. ASSUME NEW t \in Pollers, Expire(t) PROVE Kept'
  <2>1. heap' \subseteq heap /\ live' \subseteq live /\ live \ live' \subseteq heap
    BY <1>10 DEF Expire
  <2>2. \A i \in heap : ~(next[i] < clock[t]) => i \in heap'
    BY <1>10 DEF Expire
  <2>3. \A i \in live' : i \in heap => i \in heap'
    BY <1>10, <2>2, RearmedOrTwin
  <2> QED
    BY <1>8, <1>10, <2>1, <2>3 DEF PollStep, Kept, MovedOnce, NotForgotten
<1>11. CASE Tick
  BY <1>11 DEF Tick, heapVars, userVars, Kept, MovedOnce, NotForgotten
<1> QED
  BY <1>1, <1>2, <1>3, <1>4, <1>5, <1>6, <1>7, <1>9, <1>10, <1>11
     DEF Next, UserStep, UserCall, PollStep

(* As long as no two timers in the heap or armed have equal deadlines, an  *)
(* armed timer that no reset() is moving is in the heap, for any number of *)
(* threads that cancel, refresh, reset and poll any number of timers.      *)
THEOREM OnlyTwinsForgotten == Spec /\ []DistinctDeadlines => []NotForgotten
<1>1. Init => StartInPast /\ Kept
  BY ThreadsAssumption DEF Init, StartInPast, Kept, MovedOnce, NotForgotten, NoCall, Threads
<1>2. Kept => NotForgotten
  BY DEF Kept
<1> QED
  BY <1>1, <1>2, TypeCorrect, StartStep, KeptStep, PTL DEF Spec

(* A single timer is never forgotten, whoever moves it at the same time.   *)
THEOREM OneTimerKept ==
  ASSUME \A i, j \in Timers : i = j
  PROVE  Spec => []NotForgotten
<1>1. TypeOK => DistinctDeadlines
  BY DEF TypeOK, DistinctDeadlines
<1> QED
  BY <1>1, TypeCorrect, OnlyTwinsForgotten, PTL
=============================================================================
