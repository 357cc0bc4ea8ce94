----------------------------- MODULE EventTable -----------------------------
(* The descriptor table of IOManager: addEvent called by several threads,  *)
(* the growth of m_fdContexts, the interest list of the kernel's epoll     *)
(* instance, and the handling in idle() of what epoll_wait reported.       *)
(*                                                                         *)
(* delEvent, cancelEvent and cancelAll test fd > size() and so return      *)
(* without any effect for every descriptor the table holds: they are no    *)
(* actions here.                                                           *)
EXTENDS Integers, FiniteSets

CONSTANTS
  Users,        \* threads that call addEvent
  Pollers,      \* threads that execute idle()
  Fds,          \* descriptors, natural numbers
  InitialSize,  \* contextSize(32) of the constructor
  MaxEvents,    \* MAX_EVENTS of idle(): descriptors one epoll_wait returns
  Wrap,         \* m_pendingEventCount is a size_t: counts modulo Wrap
  MaxCalls      \* bound on the calls of addEvent

ASSUME UsersAssumption == IsFiniteSet(Users)
ASSUME FdsAssumption == Fds \subseteq Nat /\ IsFiniteSet(Fds)
ASSUME SizesAssumption == /\ InitialSize \in Nat /\ MaxEvents \in Nat /\ MaxCalls \in Nat
                          /\ Wrap \in Nat /\ Wrap > MaxCalls
                          /\ \A fd \in Fds : fd >= InitialSize => fd >= 2

Dirs == {"READ", "WRITE"}
Gens == 0..(MaxCalls + 1)      \* the contexts made for a descriptor are numbered
Slots == Fds \X Gens \X Dirs   \* a direction of a context: an EventContext

VARIABLES
  size,      \* m_fdContexts.size()
  gen,       \* the number of the newest context of a descriptor, in the table if fd < size
  armed,     \* the slots whose bit is set in FdContext::events
  waiter,    \* the registration whose fiber or callback a slot holds, or 0
  interest,  \* the interest list: directions watched and the context in data.ptr
  pending,   \* m_pendingEventCount
  pc,        \* where each user thread is in addEvent
  call,      \* its arguments, and the context found
  reported,  \* what epoll_wait returned to a poller and it has not handled
  calls,
  made,      \* history: registrations that addEvent accepted
  times      \* history: how often a registration was scheduled (at most 2 is recorded)

tableVars == <<size, gen>>
eventVars == <<armed, waiter, interest, pending>>
history == <<made, times>>
vars == <<tableVars, eventVars, pc, call, reported, calls, history>>

NoCall == [fd |-> 0, gen |-> 0, dir |-> "READ"]

TypeOK ==
  /\ size \in Nat
  /\ gen \in [Fds -> Gens]
  /\ armed \subseteq Slots
  /\ waiter \in [Slots -> 0..MaxCalls]
  /\ interest \in [Fds -> [gen : Gens, dirs : SUBSET Dirs]]
  /\ pending \in 0..(Wrap - 1)
  /\ pc \in [Users -> {"free", "grow", "lock"}]
  /\ call \in [Users -> [fd : Nat, gen : Gens, dir : Dirs]]
  /\ reported \in [Pollers -> SUBSET (Fds \X Gens \X (Dirs \cup {"HUP"}))]
  /\ calls \in 0..MaxCalls
  /\ made \in 0..MaxCalls
  /\ times \in [1..MaxCalls -> 0..2]

Init ==
  /\ size = InitialSize
  /\ gen = [fd \in Fds |-> IF fd < InitialSize THEN 1 ELSE 0]
  /\ armed = {}
  /\ waiter = [s \in Slots |-> 0]
  /\ interest = [fd \in Fds |-> [gen |-> 0, dirs |-> {}]]
  /\ pending = 0
  /\ pc = [u \in Users |-> "free"]
  /\ call = [u \in Users |-> NoCall]
  /\ reported = [t \in Pollers |-> {}]
  /\ calls = 0 /\ made = 0
  /\ times = [r \in 1..MaxCalls |-> 0]

---------------------------------------------------------------------------
Goto(u, label) == pc' = [pc EXCEPT ![u] = label]

(* addEvent: look the descriptor up under a shared lock.                   *)
Lookup(u, fd, dir) ==
  /\ pc[u] = "free"
  /\ calls < MaxCalls
  /\ calls' = calls + 1
  /\ call' = [call EXCEPT ![u] = [fd |-> fd, gen |-> gen[fd], dir |-> dir]]
  /\ Goto(u, IF fd < size THEN "lock" ELSE "grow")
  /\ UNCHANGED <<tableVars, eventVars, reported, history>>

(* contextSize(1.5 * fd) under the exclusive lock, whatever the size has   *)
(* become meanwhile: entries beyond the new size are lost, entries that    *)
(* appear get a new context.                                               *)
Grow(u) ==
  /\ pc[u] = "grow"
  /\ size' = (3 * call[u].fd) \div 2
  /\ gen' = [fd \in Fds |-> IF size <= fd /\ fd < size' THEN gen[fd] + 1 ELSE gen[fd]]
  /\ call' = [call EXCEPT ![u].gen = gen'[call[u].fd]]
  /\ Goto(u, "lock")
  /\ UNCHANGED <<eventVars, reported, calls, history>>

---------------------------------------------------------------------------
Found(u) == <<call[u].fd, call[u].gen, call[u].dir>>
ArmedDirs(fd, g) == {d \in Dirs : <<fd, g, d>> \in armed}

(* Mutant of CtlSucceeds: the result of epoll_ctl is not tested.           *)
CtlSucceedsWrongUntested(u) == TRUE

(* epoll_ctl(EPOLL_CTL_ADD) fails for a descriptor in the interest list,   *)
(* EPOLL_CTL_MOD for one that is not.                                      *)
CtlSucceeds(u) == (ArmedDirs(call[u].fd, call[u].gen) = {}) <=> (interest[call[u].fd].dirs = {})

RegisteredWrongNever(u) == FALSE
Registered(u) == Found(u) \in armed

MaskWrongNewOnly(u) == {call[u].dir}
Mask(u) == ArmedDirs(call[u].fd, call[u].gen) \cup {call[u].dir}

(* addEvent under the context's mutex: the event is registered already, or *)
(* epoll_ctl fails: return -1.                                             *)
Refuse(u) ==
  /\ pc[u] = "lock"
  /\ Registered(u) \/ ~CtlSucceeds(u)
  /\ Goto(u, "free")
  /\ call' = [call EXCEPT ![u] = NoCall]
  /\ UNCHANGED <<tableVars, eventVars, reported, calls, history>>

Register(u) ==
  /\ pc[u] = "lock"
  /\ ~Registered(u)
  /\ CtlSucceeds(u)
  /\ interest' = [interest EXCEPT ![call[u].fd] = [gen |-> call[u].gen, dirs |-> Mask(u)]]
  /\ pending' = (pending + 1) % Wrap
  /\ armed' = armed \cup {Found(u)}
  /\ made' = made + 1
  /\ waiter' = [waiter EXCEPT ![Found(u)] = made']
  /\ Goto(u, "free")
  /\ call' = [call EXCEPT ![u] = NoCall]
  /\ UNCHANGED <<tableVars, reported, calls, times>>

---------------------------------------------------------------------------
(* What the kernel may report: watched directions that are ready, and a    *)
(* hang-up of any descriptor in the interest list.                         *)
Reportable == UNION {{<<fd, interest[fd].gen, d>> : d \in interest[fd].dirs \cup {"HUP"}} :
                        fd \in {f \in Fds : interest[f].dirs # {}}}

(* epoll_wait returns to idle().                                           *)
Wait(t, set) ==
  /\ reported[t] = {}
  /\ set # {} /\ set \subseteq Reportable
  /\ Cardinality({r[1] : r \in set}) <= MaxEvents
  /\ reported' = [reported EXCEPT ![t] = set]
  /\ UNCHANGED <<tableVars, eventVars, pc, call, calls, history>>

(* Mutant of Ready: a hang-up makes both directions ready.                 *)
ReadyWrongHangup(t, fd, g) ==
  IF <<fd, g, "HUP">> \in reported[t] THEN Dirs
  ELSE {d \in Dirs : <<fd, g, d>> \in reported[t]}

(* The directions handled: those reported, and on a hang-up those          *)
(* registered.                                                             *)
Ready(t, fd, g) ==
  {d \in Dirs : <<fd, g, d>> \in reported[t]}
  \cup (IF <<fd, g, "HUP">> \in reported[t] THEN ArmedDirs(fd, g) ELSE {})

Take(t, fd, g) ==
  /\ \E d \in Dirs \cup {"HUP"} : <<fd, g, d>> \in reported[t]
  /\ reported' = [reported EXCEPT ![t] = {r \in @ : <<r[1], r[2]>> # <<fd, g>>}]

(* (fd_ctx->events & event) == NONE: continue.                             *)
Ignore(t, fd, g) ==
  /\ Take(t, fd, g)
  /\ Ready(t, fd, g) \cap ArmedDirs(fd, g) = {}
  /\ UNCHANGED <<tableVars, eventVars, pc, call, calls, history>>

(* What stays registered, and watched, after a report was handled.         *)
LeftWrongNone(t, fd, g) == {}
Left(t, fd, g) == ArmedDirs(fd, g) \ Ready(t, fd, g)

(* m_pendingEventCount-- n times.                                          *)
ReleasedWrongSigned(n) == pending - n
Released(n) == (pending - n) % Wrap

(* Otherwise every ready direction is triggered, registered or not:        *)
(* unregister it, schedule its waiter, and decrement the pending count.    *)
Handle(t, fd, g) ==
  LET ready == Ready(t, fd, g)
      fired == {<<fd, g, d>> : d \in ready}
      scheduled == {waiter[s] : s \in fired}
  IN /\ Take(t, fd, g)
     /\ ready \cap ArmedDirs(fd, g) # {}
     /\ interest' = IF interest[fd].dirs = {} THEN interest
                    ELSE [interest EXCEPT ![fd] = [gen |-> g, dirs |-> Left(t, fd, g)]]
     /\ armed' = armed \ fired
     /\ waiter' = [s \in Slots |-> IF s \in fired THEN 0 ELSE waiter[s]]
     /\ pending' = Released(Cardinality(ready))
     /\ times' = [r \in 1..MaxCalls |-> IF r \in scheduled /\ times[r] < 2
                                        THEN times[r] + 1 ELSE times[r]]
     /\ UNCHANGED <<tableVars, pc, call, calls, made>>

---------------------------------------------------------------------------
UserStep(u) == Grow(u) \/ Refuse(u) \/ Register(u)

HandleStep(t) == \E fd \in Fds, g \in Gens : Ignore(t, fd, g) \/ Handle(t, fd, g)

Next == \/ \E u \in Users : UserStep(u) \/ \E fd \in Fds, dir \in Dirs : Lookup(u, fd, dir)
        \/ \E t \in Pollers : HandleStep(t) \/ \E set \in SUBSET Reportable : Wait(t, set)

Spec == Init /\ [][Next]_vars

(* Threads are scheduled, and a watched direction becomes ready in time    *)
(* and is reported to some poller.                                         *)
Reports(fd, dir) == \E t \in Pollers, set \in SUBSET Reportable :
                      <<fd, interest[fd].gen, dir>> \in set /\ Wait(t, set)

Fairness == /\ \A u \in Users : WF_vars(UserStep(u))
            /\ \A t \in Pollers : WF_vars(HandleStep(t))
            /\ \A fd \in Fds, dir \in Dirs : SF_vars(Reports(fd, dir))

FairSpec == Spec /\ Fairness

---------------------------------------------------------------------------
(* A registration that addEvent accepted is held by exactly one slot until *)
(* it is scheduled, and is scheduled once, stale reports and lost contexts *)
(* included.                                                               *)
Conserved ==
  \A r \in 1..made : /\ times[r] <= 1
                     /\ times[r] = 0 <=> \E s \in armed : waiter[s] = r

(* Seen from the callers of addEvent, with the contexts, the table and the *)
(* epoll calls left out, a direction of a descriptor is one place: however *)
(* many contexts resize() makes, two registrations never share it, and one *)
(* leaves it when it is scheduled only (iomanager.cc:117, 283).            *)
Accepted == INSTANCE Registry WITH
              Places <- Fds \X Dirs, Waiters <- 1..MaxCalls, Anonymous <- {}, Nobody <- 0,
              held <- [p \in Fds \X Dirs |-> waiter[<<p[1], interest[p[1]].gen, p[2]>>]],
              scheduled <- {r \in 1..MaxCalls : times[r] > 0}

ImplementsRegistry == Accepted!Spec

(* The kernel watches what is registered, and would hand back the context  *)
(* that holds the registration, also when that context was lost from the   *)
(* table by a racing contextSize().                                        *)
Watched ==
  \A s \in armed : interest[s[1]].gen = s[2] /\ interest[s[1]].dirs = ArmedDirs(s[1], s[2])

(* m_pendingEventCount is the number of registered events: stopping()      *)
(* depends on it.                                                          *)
PendingExact == pending = Cardinality(armed)

(* Every call of addEvent for a descriptor asks for the same direction.    *)
OneWay(way) == \A u \in Users : pc[u] # "free" => call[u].dir = way[call[u].fd]

(* When nobody waits to write, the count is exact for any number of        *)
(* pollers and through every hang-up, although idle() decrements it for    *)
(* directions that nobody registered (iomanager.cc:307).                   *)
ReadersCounted == []OneWay([fd \in Fds |-> "READ"]) => []PendingExact

(* Once addEvent is called no more, the time comes when every registration *)
(* it accepted has been scheduled, stale reports and lost contexts         *)
(* notwithstanding.                                                        *)
Served == <>[](\A r \in 1..made : times[r] > 0)
=============================================================================
