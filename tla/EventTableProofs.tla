-------------------------- MODULE EventTableProofs --------------------------
(* Theorems about the descriptor table, for any number of threads,         *)
(* descriptors and calls.                                                  *)
EXTENDS EventTable, FiniteSetTheorems, TLAPS

Growing == {u \in Users : pc[u] = "grow"}
Busy == {u \in Users : pc[u] # "free"}

(* A call that has still to grow the table is counted in `calls' and has   *)
(* made no context yet; a call in progress has registered nothing yet.     *)
Counted ==
  /\ \A fd \in Fds : gen[fd] + Cardinality(Growing) <= calls + 1
  /\ made + Cardinality(Busy) <= calls

(* The descriptor of a call in progress is one of Fds.                     *)
Calling == \A u \in Users : pc[u] # "free" => call[u].fd \in Fds

TypeInvariant == TypeOK /\ Counted /\ Calling

---------------------------------------------------------------------------
LEMMA FiniteUsers == IsFiniteSet(Growing) /\ IsFiniteSet(Busy)
  <1>1. Growing \subseteq Users /\ Busy \subseteq Users
    BY DEF Growing, Busy
  <1> QED
    BY <1>1, UsersAssumption, FS_Subset

LEMMA CountsAreNats == Cardinality(Growing) \in Nat /\ Cardinality(Busy) \in Nat
  BY FiniteUsers, FS_CardinalityType

(* One context more per descriptor and one registration more per call are  *)
(* possible at most.                                                       *)
LEMMA InitTyped == Init => TypeInvariant
  <1> SUFFICES ASSUME Init PROVE TypeInvariant
    OBVIOUS
  <1>1. Growing = {} /\ Busy = {}
    BY DEF Init, Growing, Busy
  <1>2. Cardinality(Growing) = 0 /\ Cardinality(Busy) = 0
    BY <1>1, FS_EmptySet
  <1>3. Counted
    BY <1>2, SizesAssumption DEF Init, Counted
  <1>4. NoCall \in [fd : Nat, gen : Gens, dir : Dirs]
    BY SizesAssumption DEF NoCall, Gens, Dirs
  <1>5. TypeOK
    BY <1>4, SizesAssumption, FdsAssumption DEF Init, TypeOK, Gens
  <1>6. Calling
    BY DEF Init, Calling
  <1> QED
    BY <1>3, <1>5, <1>6 DEF TypeInvariant

(* Looking a descriptor up is the one step that counts a call.             *)
LEMMA LookupTyped ==
  ASSUME TypeInvariant, NEW u \in Users, NEW fd \in Fds, NEW dir \in Dirs, Lookup(u, fd, dir)
  PROVE  TypeInvariant'
  <1> USE SizesAssumption, FdsAssumption DEF TypeInvariant
  <1>1. /\ calls' = calls + 1 /\ calls < MaxCalls /\ pc[u] = "free"
        /\ pc' = [pc EXCEPT ![u] = IF fd < size THEN "lock" ELSE "grow"]
        /\ call' = [call EXCEPT ![u] = [fd |-> fd, gen |-> gen[fd], dir |-> dir]]
        /\ UNCHANGED <<size, gen, armed, waiter, interest, pending, reported, made, times>>
    BY DEF Lookup, Goto, tableVars, eventVars, history
  <1>2. [fd |-> fd, gen |-> gen[fd], dir |-> dir] \in [fd : Nat, gen : Gens, dir : Dirs]
    BY DEF TypeOK
  <1>3. call' \in [Users -> [fd : Nat, gen : Gens, dir : Dirs]]
    BY <1>1, <1>2 DEF TypeOK
  <1>4. pc' \in [Users -> {"free", "grow", "lock"}]
    BY <1>1 DEF TypeOK
  <1>5. calls' \in 0..MaxCalls
    BY <1>1 DEF TypeOK
  <1>6. TypeOK'
    BY <1>1, <1>3, <1>4, <1>5 DEF TypeOK
  <1>7. u \notin Growing /\ u \notin Busy
    BY <1>1 DEF Growing, Busy
  <1>8. Busy' = Busy \cup {u} /\ (Growing' = Growing \/ Growing' = Growing \cup {u})
    BY <1>1 DEF Growing, Busy, TypeOK
  <1>9. /\ Cardinality(Busy') = Cardinality(Busy) + 1
        /\ Cardinality(Growing') \in {Cardinality(Growing), Cardinality(Growing) + 1}
    BY <1>7, <1>8, FiniteUsers, FS_AddElement
  <1>10. Counted'
    <2>1. ASSUME NEW f \in Fds PROVE gen[f] + Cardinality(Growing') <= calls + 1 + 1
      <3>1. gen[f] \in Nat /\ calls \in Nat
        BY DEF TypeOK, Gens
      <3>2. gen[f] + Cardinality(Growing) <= calls + 1
        BY DEF Counted
      <3> QED
        BY <1>9, <3>1, <3>2, CountsAreNats
    <2>2. made + Cardinality(Busy) <= calls /\ made \in Nat /\ calls \in Nat
      BY DEF Counted, TypeOK
    <2>3. made + Cardinality(Busy') <= calls + 1
      BY <2>2, <1>9, CountsAreNats
    <2> QED
      BY <1>1, <2>1, <2>3 DEF Counted
  <1>11. Calling'
    BY <1>1 DEF Calling, TypeOK
  <1> QED
    BY <1>6, <1>10, <1>11

(* The context that Grow makes is paid for by the call that grows.         *)
LEMMA GrowTyped ==
  ASSUME TypeInvariant, NEW u \in Users, Grow(u)
  PROVE  TypeInvariant'
  <1> USE SizesAssumption, FdsAssumption DEF TypeInvariant
  <1>1. /\ pc[u] = "grow"
        /\ size' = (3 * call[u].fd) \div 2
        /\ gen' = [fd \in Fds |-> IF size <= fd /\ fd < size' THEN gen[fd] + 1 ELSE gen[fd]]
        /\ pc' = [pc EXCEPT ![u] = "lock"]
        /\ call' = [call EXCEPT ![u].gen = gen'[call[u].fd]]
        /\ UNCHANGED <<armed, waiter, interest, pending, reported, calls, made, times>>
    BY DEF Grow, Goto, eventVars, history
  <1>2. u \in Growing /\ Growing' = Growing \ {u} /\ Busy' = Busy
    BY <1>1 DEF Growing, Busy, TypeOK
  <1>3. Cardinality(Growing') = Cardinality(Growing) - 1 /\ Cardinality(Busy') = Cardinality(Busy)
    BY <1>2, FiniteUsers, FS_RemoveElement
  <1>4. Cardinality(Growing') \in Nat
    BY <1>2, FiniteUsers, FS_Subset, FS_CardinalityType
  <1>5. ASSUME NEW f \in Fds
        PROVE  gen'[f] \in Nat /\ gen'[f] + Cardinality(Growing') <= calls + 1
    <2>1. gen[f] \in Nat /\ calls \in Nat
      BY DEF TypeOK, Gens
    <2>2. gen[f] + Cardinality(Growing) <= calls + 1
      BY DEF Counted
    <2>3. gen'[f] \in {gen[f], gen[f] + 1}
      BY <1>1
    <2> QED
      BY <1>3, <2>1, <2>2, <2>3, CountsAreNats
  <1>6. gen' \in [Fds -> Gens]
    <2>1. ASSUME NEW f \in Fds PROVE gen'[f] \in Gens
      BY <1>4, <1>5 DEF TypeOK, Gens
    <2> QED
      BY <1>1, <2>1
  <1>7. Counted'
    <2>1. made + Cardinality(Busy) <= calls
      BY DEF Counted
    <2> QED
      BY <1>1, <1>3, <1>5, <2>1 DEF Counted
  <1>8. call[u].fd \in Fds
    BY <1>1 DEF Calling
  <1>9. call' \in [Users -> [fd : Nat, gen : Gens, dir : Dirs]]
    <2>1. gen'[call[u].fd] \in Gens
      BY <1>6, <1>8
    <2>2. call \in [Users -> [fd : Nat, gen : Gens, dir : Dirs]]
      BY DEF TypeOK
    <2> QED
      BY <1>1, <2>1, <2>2
  <1>10. size' \in Nat
    BY <1>1, <1>8
  <1>11. pc' \in [Users -> {"free", "grow", "lock"}]
    BY <1>1 DEF TypeOK
  <1>12. TypeOK'
    BY <1>1, <1>6, <1>9, <1>10, <1>11 DEF TypeOK
  <1>13. Calling'
    BY <1>1 DEF Calling, TypeOK
  <1> QED
    BY <1>7, <1>12, <1>13

(* A call that ends gives up its place among the busy ones.                *)
LEMMA EndsTyped ==
  ASSUME TypeInvariant, NEW u \in Users, pc[u] = "lock", pc' = [pc EXCEPT ![u] = "free"]
  PROVE  /\ Growing' = Growing
         /\ Cardinality(Busy') = Cardinality(Busy) - 1
  <1>1. u \in Busy /\ Busy' = Busy \ {u} /\ Growing' = Growing
    BY DEF Busy, Growing, TypeInvariant, TypeOK
  <1> QED
    BY <1>1, FiniteUsers, FS_RemoveElement

LEMMA RefuseTyped ==
  ASSUME TypeInvariant, NEW u \in Users, Refuse(u)
  PROVE  TypeInvariant'
  <1> USE DEF TypeInvariant
  <1>1. /\ pc[u] = "lock" /\ pc' = [pc EXCEPT ![u] = "free"]
        /\ call' = [call EXCEPT ![u] = NoCall]
        /\ UNCHANGED <<size, gen, armed, waiter, interest, pending, reported, calls, made, times>>
    BY DEF Refuse, Goto, tableVars, eventVars, history
  <1>2. NoCall \in [fd : Nat, gen : Gens, dir : Dirs]
    BY SizesAssumption DEF NoCall, Gens, Dirs
  <1>3. TypeOK'
    BY <1>1, <1>2 DEF TypeOK
  <1>4. Growing' = Growing /\ Cardinality(Busy') = Cardinality(Busy) - 1
    BY <1>1, EndsTyped
  <1>5. Counted'
    BY <1>1, <1>4, CountsAreNats DEF Counted, TypeOK, Gens
  <1>6. Calling'
    BY <1>1 DEF Calling, TypeOK
  <1> QED
    BY <1>3, <1>5, <1>6

(* addEvent registers one event per call.                                  *)
LEMMA RegisterTyped ==
  ASSUME TypeInvariant, NEW u \in Users, Register(u)
  PROVE  /\ TypeInvariant'
         /\ Found(u) \in Slots
         /\ made' = made + 1 /\ made' \in 1..MaxCalls
  <1> USE SizesAssumption, FdsAssumption DEF TypeInvariant
  <1>1. /\ pc[u] = "lock" /\ pc' = [pc EXCEPT ![u] = "free"]
        /\ interest' = [interest EXCEPT ![call[u].fd] = [gen |-> call[u].gen, dirs |-> Mask(u)]]
        /\ pending' = (pending + 1) % Wrap
        /\ armed' = armed \cup {Found(u)}
        /\ made' = made + 1
        /\ waiter' = [waiter EXCEPT ![Found(u)] = made']
        /\ call' = [call EXCEPT ![u] = NoCall]
        /\ UNCHANGED <<size, gen, reported, calls, times>>
    BY DEF Register, Goto, tableVars
  <1>2. NoCall \in [fd : Nat, gen : Gens, dir : Dirs]
    BY DEF NoCall, Gens, Dirs
  <1>3. call[u].fd \in Fds /\ call[u].gen \in Gens /\ call[u].dir \in Dirs
    BY <1>1 DEF Calling, TypeOK
  <1>4. Found(u) \in Slots
    BY <1>3 DEF Found, Slots
  <1>5. Mask(u) \in SUBSET Dirs
    BY <1>3 DEF Mask, ArmedDirs
  <1>6. Growing' = Growing /\ Cardinality(Busy') = Cardinality(Busy) - 1
    BY <1>1, EndsTyped
  <1>7. Cardinality(Busy') \in Nat
    <2>1. Busy' \subseteq Users
      BY DEF Busy
    <2> QED
      BY <2>1, UsersAssumption, FS_Subset, FS_CardinalityType
  <1>8. made' + Cardinality(Busy') <= calls /\ made' \in 1..MaxCalls
    <2>1. made \in Nat /\ calls \in 0..MaxCalls
      BY DEF TypeOK
    <2>2. made + Cardinality(Busy) <= calls
      BY DEF Counted
    <2> QED
      BY <1>1, <1>6, <1>7, <2>1, <2>2, CountsAreNats
  <1>9. Counted'
    BY <1>1, <1>6, <1>8 DEF Counted
  <1>10. pending' \in 0..(Wrap - 1)
    BY <1>1 DEF TypeOK
  <1>11. interest' \in [Fds -> [gen : Gens, dirs : SUBSET Dirs]]
    <2>1. [gen |-> call[u].gen, dirs |-> Mask(u)] \in [gen : Gens, dirs : SUBSET Dirs]
      BY <1>3, <1>5
    <2>2. interest \in [Fds -> [gen : Gens, dirs : SUBSET Dirs]]
      BY DEF TypeOK
    <2> QED
      BY <1>1, <2>1, <2>2
  <1>12. waiter' \in [Slots -> 0..MaxCalls]
    <2>1. made' \in 0..MaxCalls
      BY <1>8
    <2>2. waiter \in [Slots -> 0..MaxCalls]
      BY DEF TypeOK
    <2> QED
      BY <1>1, <2>1, <2>2
  <1>13. /\ pc' \in [Users -> {"free", "grow", "lock"}]
         /\ call' \in [Users -> [fd : Nat, gen : Gens, dir : Dirs]]
    BY <1>1, <1>2 DEF TypeOK
  <1>14. made' \in 0..MaxCalls
    BY <1>8
  <1>15. armed' \subseteq Slots
    BY <1>1, <1>4 DEF TypeOK
  <1>16. TypeOK'
    BY <1>1, <1>10, <1>11, <1>12, <1>13, <1>14, <1>15 DEF TypeOK
  <1>17. Calling'
    BY <1>1 DEF Calling, TypeOK
  <1> QED
    BY <1>1, <1>4, <1>8, <1>9, <1>16, <1>17

LEMMA WaitTyped ==
  ASSUME TypeInvariant, NEW t \in Pollers, NEW set \in SUBSET Reportable, Wait(t, set)
  PROVE  TypeInvariant'
  <1>1. /\ reported' = [reported EXCEPT ![t] = set]
        /\ UNCHANGED <<size, gen, armed, waiter, interest, pending, pc, call, calls, made, times>>
    BY DEF Wait, tableVars, eventVars, history
  <1>2. Reportable \subseteq Fds \X Gens \X (Dirs \cup {"HUP"})
    BY DEF Reportable, TypeInvariant, TypeOK
  <1>3. TypeOK'
    BY <1>1, <1>2 DEF TypeInvariant, TypeOK
  <1>4. Counted' /\ Calling'
    BY <1>1 DEF TypeInvariant, Counted, Calling, Growing, Busy
  <1> QED
    BY <1>3, <1>4 DEF TypeInvariant

LEMMA IgnoreTyped ==
  ASSUME TypeInvariant, NEW t \in Pollers, NEW fd \in Fds, NEW g \in Gens, Ignore(t, fd, g)
  PROVE  TypeInvariant'
  <1>1. /\ reported' = [reported EXCEPT ![t] = {r \in @ : <<r[1], r[2]>> # <<fd, g>>}]
        /\ UNCHANGED <<size, gen, armed, waiter, interest, pending, pc, call, calls, made, times>>
    BY DEF Ignore, Take, tableVars, eventVars, history
  <1>2. TypeOK'
    BY <1>1 DEF TypeInvariant, TypeOK
  <1>3. Counted' /\ Calling'
    BY <1>1 DEF TypeInvariant, Counted, Calling, Growing, Busy
  <1> QED
    BY <1>2, <1>3 DEF TypeInvariant

(* What a handled report changes.                                          *)
SlotsOf(fd, g, dirs) == {<<fd, g, d>> : d \in dirs}
Fired(t, fd, g) == SlotsOf(fd, g, Ready(t, fd, g))
Scheduled(t, fd, g) == {waiter[s] : s \in Fired(t, fd, g)}

LEMMA HandleUnfolds ==
  ASSUME NEW t, NEW fd, NEW g, Handle(t, fd, g)
  PROVE  /\ Ready(t, fd, g) \cap ArmedDirs(fd, g) # {}
         /\ reported' = [reported EXCEPT ![t] = {r \in @ : <<r[1], r[2]>> # <<fd, g>>}]
         /\ interest' = IF interest[fd].dirs = {} THEN interest
                        ELSE [interest EXCEPT ![fd] = [gen |-> g, dirs |-> Left(t, fd, g)]]
         /\ armed' = armed \ Fired(t, fd, g)
         /\ waiter' = [s \in Slots |-> IF s \in Fired(t, fd, g) THEN 0 ELSE waiter[s]]
         /\ pending' = (pending - Cardinality(Ready(t, fd, g))) % Wrap
         /\ times' = [r \in 1..MaxCalls |->
                        IF r \in Scheduled(t, fd, g) /\ times[r] < 2 THEN times[r] + 1
                        ELSE times[r]]
         /\ UNCHANGED <<size, gen, pc, call, calls, made>>
  BY DEF Handle, Take, Released, Fired, SlotsOf, Scheduled, tableVars

LEMMA ReadyIsFinite ==
  ASSUME TypeInvariant, NEW t \in Pollers, NEW fd \in Fds, NEW g \in Gens
  PROVE  /\ Ready(t, fd, g) \subseteq Dirs
         /\ Cardinality(Ready(t, fd, g)) \in Nat
  <1>1. Ready(t, fd, g) \subseteq Dirs
    BY DEF Ready, ArmedDirs
  <1>2. IsFiniteSet(Dirs)
    <2>1. IsFiniteSet({"READ"}) /\ IsFiniteSet({"WRITE"})
      BY FS_Singleton
    <2>2. Dirs = {"READ"} \cup {"WRITE"}
      BY DEF Dirs
    <2> QED
      BY <2>1, <2>2, FS_Union
  <1> QED
    BY <1>1, <1>2, FS_Subset, FS_CardinalityType

LEMMA HandleTyped ==
  ASSUME TypeInvariant, NEW t \in Pollers, NEW fd \in Fds, NEW g \in Gens, Handle(t, fd, g)
  PROVE  TypeInvariant'
  <1> USE SizesAssumption DEF TypeInvariant
  <1>1. Left(t, fd, g) \in SUBSET Dirs
    BY DEF Left, ArmedDirs
  <1>2. interest' \in [Fds -> [gen : Gens, dirs : SUBSET Dirs]]
    <2>1. [gen |-> g, dirs |-> Left(t, fd, g)] \in [gen : Gens, dirs : SUBSET Dirs]
      BY <1>1
    <2>2. interest \in [Fds -> [gen : Gens, dirs : SUBSET Dirs]]
      BY DEF TypeOK
    <2>3. interest' = IF interest[fd].dirs = {} THEN interest
                      ELSE [interest EXCEPT ![fd] = [gen |-> g, dirs |-> Left(t, fd, g)]]
      BY HandleUnfolds
    <2> QED
      BY <2>1, <2>2, <2>3
  <1>3. pending' \in 0..(Wrap - 1)
    <2>1. pending' = (pending - Cardinality(Ready(t, fd, g))) % Wrap
      BY HandleUnfolds
    <2>2. Cardinality(Ready(t, fd, g)) \in Nat /\ pending \in Nat
      BY ReadyIsFinite DEF TypeOK
    <2>3. Wrap \in Nat \ {0}
      OBVIOUS
    <2> HIDE DEF TypeInvariant
    <2> QED
      BY <2>1, <2>2, <2>3
  <1>4. waiter' \in [Slots -> 0..MaxCalls]
    BY HandleUnfolds DEF TypeOK
  <1>5. times' \in [1..MaxCalls -> 0..2]
    BY HandleUnfolds DEF TypeOK
  <1>6. armed' \subseteq Slots
    BY HandleUnfolds DEF TypeOK
  <1>7. reported' \in [Pollers -> SUBSET (Fds \X Gens \X (Dirs \cup {"HUP"}))]
    <2>1. reported' = [reported EXCEPT ![t] = {r \in @ : <<r[1], r[2]>> # <<fd, g>>}]
      BY HandleUnfolds
    <2>2. reported \in [Pollers -> SUBSET (Fds \X Gens \X (Dirs \cup {"HUP"}))]
      BY DEF TypeOK
    <2> QED
      BY <2>1, <2>2
  <1>8. TypeOK'
    BY <1>2, <1>3, <1>4, <1>5, <1>6, <1>7, HandleUnfolds DEF TypeOK
  <1>9. Counted' /\ Calling'
    BY HandleUnfolds DEF Counted, Calling, Growing, Busy
  <1> QED
    BY <1>8, <1>9

LEMMA StepTyped == TypeInvariant /\ [Next]_vars => TypeInvariant'
  <1> SUFFICES ASSUME TypeInvariant, [Next]_vars PROVE TypeInvariant'
    OBVIOUS
  <1>1. CASE UNCHANGED vars
    BY <1>1 DEF TypeInvariant, TypeOK, Counted, Calling, Growing, Busy, vars, tableVars, eventVars, history
  <1>2. ASSUME NEW u \in Users, UserStep(u) \/ \E fd \in Fds, dir \in Dirs : Lookup(u, fd, dir)
        PROVE  TypeInvariant'
    BY <1>2, LookupTyped, GrowTyped, RefuseTyped, RegisterTyped DEF UserStep
  <1>3. ASSUME NEW t \in Pollers, HandleStep(t) \/ \E set \in SUBSET Reportable : Wait(t, set)
        PROVE  TypeInvariant'
    BY <1>3, WaitTyped, IgnoreTyped, HandleTyped DEF HandleStep
  <1> QED
    BY <1>1, <1>2, <1>3 DEF Next

(* Every variable of the event table keeps its type; in particular no      *)
(* descriptor gets more contexts than there were calls of addEvent.        *)
THEOREM TypeCorrect == Spec => []TypeOK
  <1>1. TypeInvariant => TypeOK
    BY DEF TypeInvariant
  <1> QED
    BY <1>1, InitTyped, StepTyped, PTL DEF Spec

---------------------------------------------------------------------------
(* A slot that is not armed holds no registration: the assertion of        *)
(* addEvent at iomanager.cc:122.                                           *)
Unused == \A s \in Slots \ armed : waiter[s] = 0

(* An armed slot holds a registration of its own that was not scheduled.   *)
Held == /\ \A s \in armed : waiter[s] \in 1..made /\ times[waiter[s]] = 0
        /\ \A s1, s2 \in armed : waiter[s1] = waiter[s2] => s1 = s2

(* No registration is scheduled twice, and what was not scheduled is held. *)
Kept == \A r \in 1..made : /\ times[r] <= 1
                           /\ times[r] = 0 => \E s \in armed : waiter[s] = r

Fresh == \A r \in 1..MaxCalls : r > made => times[r] = 0

Registrations == Unused /\ Held /\ Kept /\ Fresh

LEMMA RegistrationsMeanConserved == TypeInvariant /\ Registrations => Conserved
  <1> SUFFICES ASSUME TypeInvariant, Registrations, NEW r \in 1..made
               PROVE  /\ times[r] <= 1
                      /\ times[r] = 0 <=> \E s \in armed : waiter[s] = r
    BY DEF Conserved
  <1>1. times[r] <= 1 /\ (times[r] = 0 => \E s \in armed : waiter[s] = r)
    BY DEF Registrations, Kept
  <1>2. ASSUME NEW s \in armed, waiter[s] = r PROVE times[r] = 0
    BY <1>2 DEF Registrations, Held
  <1> QED
    BY <1>1, <1>2

(* addEvent puts a new registration in a free slot.                        *)
LEMMA RegisterKeeps ==
  ASSUME TypeInvariant, Registrations, NEW u \in Users, Register(u)
  PROVE  Registrations'
  <1> DEFINE s0 == Found(u)
  <1>1. /\ s0 \in Slots /\ s0 \notin armed /\ armed' = armed \cup {s0}
        /\ made' = made + 1 /\ made' \in 1..MaxCalls /\ times' = times
        /\ waiter' = [waiter EXCEPT ![s0] = made']
    BY RegisterTyped DEF Register, Registered
  <1>2. waiter \in [Slots -> 0..MaxCalls] /\ made \in Nat /\ armed \subseteq Slots
    BY DEF TypeInvariant, TypeOK
  <1>3. waiter'[s0] = made' /\ \A s \in Slots : s # s0 => waiter'[s] = waiter[s]
    BY <1>1, <1>2
  <1> HIDE DEF s0
  <1>4. Unused'
    BY <1>1, <1>3 DEF Registrations, Unused
  <1>5. times[made'] = 0
    BY <1>1, <1>2 DEF Registrations, Fresh
  <1>6. \A s \in armed : waiter'[s] = waiter[s] /\ waiter[s] \in 1..made
    BY <1>1, <1>2, <1>3 DEF Registrations, Held
  <1>7. Held'
    <2>1. ASSUME NEW s \in armed' PROVE waiter'[s] \in 1..made' /\ times'[waiter'[s]] = 0
      BY <1>1, <1>2, <1>3, <1>5, <1>6 DEF Registrations, Held
    <2>2. ASSUME NEW s1 \in armed', NEW s2 \in armed', waiter'[s1] = waiter'[s2] PROVE s1 = s2
      BY <1>1, <1>2, <1>3, <1>6, <2>2 DEF Registrations, Held
    <2> QED
      BY <2>1, <2>2 DEF Held
  <1>8. Kept'
    <2> SUFFICES ASSUME NEW r \in 1..made'
                 PROVE  times'[r] <= 1 /\ (times'[r] = 0 => \E s \in armed' : waiter'[s] = r)
      BY DEF Kept
    <2>1. CASE r = made'
      BY <2>1, <1>1, <1>3, <1>5
    <2>2. CASE r # made'
      <3>1. r \in 1..made
        BY <2>2, <1>1, <1>2
      <3> QED
        BY <3>1, <1>1, <1>6 DEF Registrations, Kept
    <2> QED
      BY <2>1, <2>2
  <1>9. Fresh'
    BY <1>1, <1>2 DEF Registrations, Fresh
  <1> QED
    BY <1>4, <1>7, <1>8, <1>9 DEF Registrations

(* Handling a report empties the slots it fires and schedules what they    *)
(* held; a slot that was not armed held nothing.                           *)
LEMMA HandleKeeps ==
  ASSUME TypeInvariant, Registrations,
         NEW t \in Pollers, NEW fd \in Fds, NEW g \in Gens, Handle(t, fd, g)
  PROVE  Registrations'
  <1> DEFINE fired == Fired(t, fd, g)
             scheduled == Scheduled(t, fd, g)
  <1>1. /\ armed' = armed \ fired /\ made' = made
        /\ waiter' = [s \in Slots |-> IF s \in fired THEN 0 ELSE waiter[s]]
        /\ times' = [r \in 1..MaxCalls |->
                       IF r \in scheduled /\ times[r] < 2 THEN times[r] + 1 ELSE times[r]]
    BY HandleUnfolds
  <1>2. fired \subseteq Slots
    BY ReadyIsFinite DEF Fired, SlotsOf, Slots
  <1>3. /\ armed \subseteq Slots /\ made \in 0..MaxCalls
        /\ times \in [1..MaxCalls -> 0..2]
    BY DEF TypeInvariant, TypeOK
  <1>4. 1..made \subseteq 1..MaxCalls
    BY <1>3, SizesAssumption
  <1>5. \A r \in scheduled : r = 0 \/ \E s \in armed \cap fired : waiter[s] = r
    BY <1>2 DEF Scheduled, Registrations, Unused
  <1>6. \A s \in fired : waiter[s] \in scheduled
    BY DEF Scheduled
  <1> HIDE DEF fired, scheduled
  <1>7. Unused'
    BY <1>1, <1>3 DEF Registrations, Unused
  <1>8. ASSUME NEW s \in armed'
        PROVE  /\ s \in armed /\ s \notin fired /\ waiter'[s] = waiter[s]
               /\ waiter[s] \in 1..made /\ waiter[s] \notin scheduled
    <2>1. s \in armed /\ s \notin fired /\ waiter'[s] = waiter[s]
      BY <1>1, <1>3
    <2>2. waiter[s] \in 1..made
      BY <2>1 DEF Registrations, Held
    <2>3. ASSUME waiter[s] \in scheduled PROVE FALSE
      <3>1. waiter[s] # 0
        BY <2>2
      <3>2. PICK s2 \in armed \cap fired : waiter[s2] = waiter[s]
        BY <1>5, <2>3, <3>1
      <3> QED
        BY <2>1, <3>2 DEF Registrations, Held
    <2> QED
      BY <2>1, <2>2, <2>3
  <1>9. Held'
    <2>1. ASSUME NEW s \in armed' PROVE waiter'[s] \in 1..made' /\ times'[waiter'[s]] = 0
      <3>1. waiter[s] \in 1..MaxCalls
        BY <1>8, <1>4
      <3>2. times[waiter[s]] = 0
        BY <1>8 DEF Registrations, Held
      <3> QED
        BY <1>1, <1>8, <3>1, <3>2
    <2>2. ASSUME NEW s1 \in armed', NEW s2 \in armed', waiter'[s1] = waiter'[s2] PROVE s1 = s2
      BY <1>8, <2>2 DEF Registrations, Held
    <2> QED
      BY <2>1, <2>2 DEF Held
  <1>10. Kept'
    <2> SUFFICES ASSUME NEW r \in 1..made
                 PROVE  times'[r] <= 1 /\ (times'[r] = 0 => \E s \in armed' : waiter'[s] = r)
      BY <1>1 DEF Kept
    <2>1. r \in 1..MaxCalls /\ times[r] \in 0..2
      BY <1>3, <1>4
    <2>2. times[r] <= 1 /\ (times[r] = 0 => \E s \in armed : waiter[s] = r)
      BY DEF Registrations, Kept
    <2>3. CASE r \in scheduled
      <3>1. r # 0
        BY <2>1
      <3>2. PICK s \in armed \cap fired : waiter[s] = r
        BY <1>5, <2>3, <3>1
      <3>3. times[r] = 0
        BY <3>2 DEF Registrations, Held
      <3>4. times'[r] = 1
        BY <1>1, <2>1, <2>3, <3>3
      <3> QED
        BY <3>4
    <2>4. CASE r \notin scheduled
      <3>1. times'[r] = times[r]
        BY <1>1, <2>1, <2>4
      <3>2. ASSUME NEW s \in armed, waiter[s] = r PROVE s \in armed' /\ waiter'[s] = r
        BY <1>1, <1>3, <1>6, <2>4, <3>2
      <3> QED
        BY <2>2, <3>1, <3>2
    <2> QED
      BY <2>3, <2>4
  <1>11. Fresh'
    <2> SUFFICES ASSUME NEW r \in 1..MaxCalls, r > made PROVE times'[r] = 0
      BY <1>1 DEF Fresh
    <2>1. times[r] = 0
      BY DEF Registrations, Fresh
    <2>2. ASSUME r \in scheduled PROVE FALSE
      <3>1. PICK s \in armed \cap fired : waiter[s] = r
        BY <1>3, <1>5, <2>2
      <3>2. r \in 1..made
        BY <3>1 DEF Registrations, Held
      <3> QED
        BY <1>3, <3>2
    <2> QED
      BY <1>1, <2>1, <2>2
  <1> QED
    BY <1>7, <1>9, <1>10, <1>11 DEF Registrations

(* What the other steps leave alone.                                       *)
LEMMA StepCases ==
  ASSUME [Next]_vars
  PROVE  \/ \E u \in Users : Register(u)
         \/ \E t \in Pollers, fd \in Fds, g \in Gens : Handle(t, fd, g)
         \/ UNCHANGED <<eventVars, history>>
  BY DEF Next, vars, UserStep, HandleStep, Lookup, Grow, Refuse, Wait, Ignore

LEMMA InitRegistrations == Init => Registrations
  BY SizesAssumption DEF Init, Registrations, Unused, Held, Kept, Fresh

LEMMA StepRegistrations == TypeInvariant /\ Registrations /\ [Next]_vars => Registrations'
  <1> SUFFICES ASSUME TypeInvariant, Registrations, [Next]_vars PROVE Registrations'
    OBVIOUS
  <1>1. CASE UNCHANGED <<eventVars, history>>
    BY <1>1 DEF eventVars, history, Registrations, Unused, Held, Kept, Fresh
  <1> QED
    BY <1>1, StepCases, RegisterKeeps, HandleKeeps

(* A registration that addEvent accepted is scheduled at most once, and is *)
(* held by a slot as long as it was not.                                   *)
THEOREM EventsConserved == Spec => []Conserved
  <1> QED
    BY InitTyped, StepTyped, InitRegistrations, StepRegistrations, RegistrationsMeanConserved,
       PTL DEF Spec

---------------------------------------------------------------------------
LEMMA InitWatched == Init => Watched
  BY DEF Init, Watched

(* EPOLL_CTL_ADD succeeds only where nothing is watched, and MOD finds the *)
(* context that is watched already.                                        *)
LEMMA RegisterWatched ==
  ASSUME TypeInvariant, Watched, NEW u \in Users, Register(u)
  PROVE  Watched'
  <1> DEFINE f == call[u].fd
             g == call[u].gen
  <1>1. /\ armed' = armed \cup {<<f, g, call[u].dir>>}
        /\ interest' = [interest EXCEPT ![f] = [gen |-> g, dirs |-> ArmedDirs(f, g) \cup {call[u].dir}]]
        /\ (ArmedDirs(f, g) = {}) <=> (interest[f].dirs = {})
    BY DEF Register, Found, Mask, CtlSucceeds
  <1>2. f \in Fds /\ g \in Gens /\ call[u].dir \in Dirs
    BY DEF Register, TypeInvariant, Calling, TypeOK
  <1>3. interest \in [Fds -> [gen : Gens, dirs : SUBSET Dirs]] /\ armed \subseteq Fds \X Gens \X Dirs
    BY DEF TypeInvariant, TypeOK, Slots
  <1> HIDE DEF f, g
  <1>4. \A s \in armed : s[3] \in ArmedDirs(s[1], s[2])
    BY <1>3 DEF ArmedDirs
  <1>5. \A s \in armed : s[1] = f => s[2] = g
    <2> SUFFICES ASSUME NEW s \in armed, s[1] = f PROVE s[2] = g
      OBVIOUS
    <2>1. interest[f].gen = s[2] /\ interest[f].dirs # {}
      BY <1>4 DEF Watched
    <2>2. PICK d \in Dirs : <<f, g, d>> \in armed
      BY <1>1, <2>1 DEF ArmedDirs
    <2>3. interest[f].gen = g
      BY <2>2 DEF Watched
    <2> QED
      BY <2>1, <2>3
  <1>6. ASSUME NEW s \in armed'
        PROVE  interest'[s[1]].gen = s[2] /\ interest'[s[1]].dirs = ArmedDirs(s[1], s[2])'
    <2>1. CASE s[1] = f
      <3>1. s[2] = g
        BY <1>1, <1>5, <2>1
      <3>2. interest'[f] = [gen |-> g, dirs |-> ArmedDirs(f, g) \cup {call[u].dir}]
        BY <1>1, <1>2, <1>3
      <3>3. ArmedDirs(s[1], s[2])' = {d \in Dirs : <<f, g, d>> \in armed'}
        BY <2>1, <3>1 DEF ArmedDirs
      <3>4. ArmedDirs(s[1], s[2])' = ArmedDirs(f, g) \cup {call[u].dir}
        BY <3>3, <1>1, <1>2 DEF ArmedDirs
      <3> QED
        BY <2>1, <3>1, <3>2, <3>4
    <2>2. CASE s[1] # f
      <3>1. s \in armed /\ interest'[s[1]] = interest[s[1]]
        BY <1>1, <1>3, <2>2
      <3>2. ArmedDirs(s[1], s[2])' = ArmedDirs(s[1], s[2])
        BY <1>1, <2>2 DEF ArmedDirs
      <3> QED
        BY <3>1, <3>2 DEF Watched
    <2> QED
      BY <2>1, <2>2
  <1> QED
    BY <1>6 DEF Watched

(* A report that idle() handles names the context that is watched.         *)
LEMMA HandleWatched ==
  ASSUME TypeInvariant, Watched,
         NEW t \in Pollers, NEW f \in Fds, NEW g \in Gens, Handle(t, f, g)
  PROVE  Watched'
  <1>1. /\ armed' = armed \ Fired(t, f, g)
        /\ interest' = IF interest[f].dirs = {} THEN interest
                       ELSE [interest EXCEPT ![f] = [gen |-> g, dirs |-> Left(t, f, g)]]
        /\ Ready(t, f, g) \cap ArmedDirs(f, g) # {}
    BY HandleUnfolds
  <1>2. interest \in [Fds -> [gen : Gens, dirs : SUBSET Dirs]] /\ armed \subseteq Fds \X Gens \X Dirs
    BY DEF TypeInvariant, TypeOK, Slots
  <1>3. \A s \in armed : s[1] = f => s[2] = g
    <2>1. PICK d \in Dirs : <<f, g, d>> \in armed
      BY <1>1 DEF ArmedDirs
    <2>2. interest[f].gen = g
      BY <2>1 DEF Watched
    <2> QED
      BY <2>2 DEF Watched
  <1>4. ASSUME NEW s \in armed'
        PROVE  interest'[s[1]].gen = s[2] /\ interest'[s[1]].dirs = ArmedDirs(s[1], s[2])'
    <2>1. s \in armed /\ interest[s[1]].gen = s[2] /\ interest[s[1]].dirs = ArmedDirs(s[1], s[2])
      BY <1>1 DEF Watched
    <2>2. CASE s[1] = f
      <3>1. s[2] = g /\ s[3] \in ArmedDirs(f, g)
        BY <1>2, <1>3, <2>1, <2>2 DEF ArmedDirs
      <3>2. interest'[f] = [gen |-> g, dirs |-> Left(t, f, g)]
        BY <1>1, <1>2, <2>1, <2>2, <3>1
      <3>3. ArmedDirs(s[1], s[2])' = {d \in Dirs : <<f, g, d>> \in armed'}
        BY <2>2, <3>1 DEF ArmedDirs
      <3>4. {d \in Dirs : <<f, g, d>> \in armed'} = Left(t, f, g)
        BY <1>1 DEF Left, Fired, SlotsOf, ArmedDirs
      <3> QED
        BY <2>2, <3>1, <3>2, <3>3, <3>4
    <2>3. CASE s[1] # f
      <3>1. interest'[s[1]] = interest[s[1]]
        BY <1>1, <1>2, <2>1, <2>3
      <3>2. ArmedDirs(s[1], s[2])' = ArmedDirs(s[1], s[2])
        BY <1>1, <2>3 DEF ArmedDirs, Fired, SlotsOf
      <3> QED
        BY <2>1, <3>1, <3>2
    <2> QED
      BY <2>2, <2>3
  <1> QED
    BY <1>4 DEF Watched

LEMMA StepWatched == TypeInvariant /\ Watched /\ [Next]_vars => Watched'
  <1> SUFFICES ASSUME TypeInvariant, Watched, [Next]_vars PROVE Watched'
    OBVIOUS
  <1>1. CASE UNCHANGED <<eventVars, history>>
    BY <1>1 DEF eventVars, Watched, ArmedDirs
  <1> QED
    BY <1>1, StepCases, RegisterWatched, HandleWatched

(* Growth and shrinkage of m_fdContexts never separate a registration from *)
(* the context that epoll hands back.                                      *)
THEOREM RegisteredIsWatched == Spec => []Watched
  <1> QED
    BY InitTyped, StepTyped, InitWatched, StepWatched, PTL DEF Spec

---------------------------------------------------------------------------
(* The contract of Registry.  What a place holds, and who was scheduled.   *)
HeldAt(f, d) == waiter[<<f, interest[f].gen, d>>]
WereScheduled == {r \in 1..MaxCalls : times[r] > 0}
Places == [p \in Fds \X Dirs |-> HeldAt(p[1], p[2])]

(* A place is empty, or its slot is armed.                                 *)
LEMMA HeldIsArmed ==
  ASSUME TypeInvariant, Registrations, NEW f \in Fds, NEW g \in Gens, NEW d \in Dirs
  PROVE  /\ <<f, g, d>> \notin armed => waiter[<<f, g, d>>] = 0
         /\ <<f, g, d>> \in armed => waiter[<<f, g, d>>] \in 1..made
  BY DEF Registrations, Unused, Held, Slots

(* Of the contexts of a descriptor the watched one alone holds anything,   *)
(* and epoll_ctl accepts no other.                                         *)
LEMMA WatchedAlone ==
  ASSUME TypeInvariant, Registrations, Watched, NEW f \in Fds, NEW g \in Gens, NEW d \in Dirs,
         waiter[<<f, g, d>>] # 0
  PROVE  interest[f].gen = g /\ interest[f].dirs # {}
  <1>1. <<f, g, d>> \in armed
    BY HeldIsArmed
  <1>2. d \in ArmedDirs(f, g)
    BY <1>1 DEF ArmedDirs
  <1> QED
    BY <1>1, <1>2 DEF Watched

LEMMA RegisterAccepted ==
  ASSUME TypeInvariant, Registrations, Watched, NEW u \in Users, Register(u)
  PROVE  Accepted!Register(<<call[u].fd, call[u].dir>>, made') /\ made' \in 1..MaxCalls
  <1> DEFINE f == call[u].fd
             g == call[u].gen
             dir == call[u].dir
  <1>1. /\ <<f, g, dir>> \notin armed
        /\ interest' = [interest EXCEPT ![f] = [gen |-> g, dirs |-> Mask(u)]]
        /\ waiter' = [waiter EXCEPT ![<<f, g, dir>>] = made']
        /\ times' = times
        /\ (ArmedDirs(f, g) = {}) <=> (interest[f].dirs = {})
    BY DEF Register, Registered, Found, CtlSucceeds
  <1>2. f \in Fds /\ g \in Gens /\ dir \in Dirs
    BY DEF Register, TypeInvariant, Calling, TypeOK
  <1>3. /\ interest \in [Fds -> [gen : Gens, dirs : SUBSET Dirs]]
        /\ waiter \in [Fds \X Gens \X Dirs -> 0..MaxCalls] /\ made \in Nat
    BY DEF TypeInvariant, TypeOK, Slots
  <1>4. made' = made + 1 /\ made' \in 1..MaxCalls
    BY RegisterTyped
  <1> HIDE DEF f, g, dir
  <1>5. ASSUME NEW d \in Dirs PROVE HeldAt(f, d) = waiter[<<f, g, d>>]
    <2>1. CASE interest[f].gen = g
      BY <2>1 DEF HeldAt
    <2>2. CASE interest[f].gen # g
      <3>1. waiter[<<f, g, d>>] = 0
        BY <1>2, <2>2, WatchedAlone
      <3>2. ArmedDirs(f, g) = {}
        BY <1>2, <2>2 DEF ArmedDirs, Watched
      <3>3. interest[f].gen \in Gens /\ interest[f].dirs = {}
        BY <1>1, <1>2, <1>3, <3>2
      <3>4. HeldAt(f, d) = 0
        BY <1>2, <3>3, WatchedAlone DEF HeldAt
      <3> QED
        BY <3>1, <3>4
    <2> QED
      BY <2>1, <2>2
  <1>6. HeldAt(f, dir) = 0
    BY <1>1, <1>2, <1>5, HeldIsArmed
  <1>7. ASSUME NEW e \in Fds, NEW d \in Dirs
        PROVE  HeldAt(e, d)' = IF e = f /\ d = dir THEN made' ELSE HeldAt(e, d)
    <2>1. CASE e = f
      <3>1. interest'[f].gen = g
        BY <1>1, <1>2, <1>3
      <3>2. waiter'[<<f, g, d>>] = IF d = dir THEN made' ELSE waiter[<<f, g, d>>]
        BY <1>1, <1>2, <1>3
      <3> QED
        BY <1>5, <2>1, <3>1, <3>2 DEF HeldAt
    <2>2. CASE e # f
      <3>1. interest'[e] = interest[e] /\ interest[e].gen \in Gens
        BY <1>1, <1>3, <2>2
      <3>2. \A h \in Gens : waiter'[<<e, h, d>>] = waiter[<<e, h, d>>]
        BY <1>1, <1>3, <2>2
      <3> QED
        BY <2>2, <3>1, <3>2 DEF HeldAt
    <2> QED
      BY <2>1, <2>2
  <1>8. ASSUME NEW e \in Fds, NEW d \in Dirs PROVE HeldAt(e, d) # made'
    <2>1. interest[e].gen \in Gens
      BY <1>3
    <2>2. HeldAt(e, d) \in 0..made
      BY <1>3, <2>1, HeldIsArmed DEF HeldAt
    <2> QED
      BY <1>3, <1>4, <2>2
  <1>9. made' \notin WereScheduled
    BY <1>3, <1>4 DEF WereScheduled, Registrations, Fresh
  <1>10. WereScheduled' = WereScheduled
    BY <1>1 DEF WereScheduled
  <1>11. Places' = [Places EXCEPT ![<<f, dir>>] = made']
    <2>1. ASSUME NEW p \in Fds \X Dirs
          PROVE  HeldAt(p[1], p[2])' = IF p = <<f, dir>> THEN made' ELSE HeldAt(p[1], p[2])
      <3>1. p[1] \in Fds /\ p[2] \in Dirs /\ (p = <<f, dir>> <=> p[1] = f /\ p[2] = dir)
        OBVIOUS
      <3> QED
        BY <1>7, <3>1
    <2> QED
      BY <2>1 DEF Places
  <1>12. Places[<<f, dir>>] = 0 /\ \A p \in Fds \X Dirs : Places[p] # made'
    BY <1>2, <1>6, <1>8 DEF Places
  <1> QED
    BY <1>4, <1>9, <1>10, <1>11, <1>12
    DEF Accepted!Register, Accepted!Apart, Places, HeldAt, WereScheduled, f, dir

(* The places a handled report empties.                                    *)
Emptied(t, f, g) == {p \in {f} \X Ready(t, f, g) : waiter[<<f, g, p[2]>>] # 0}

LEMMA HandleReports ==
  ASSUME TypeInvariant, Registrations, Watched,
         NEW t \in Pollers, NEW f \in Fds, NEW g \in Gens, Handle(t, f, g)
  PROVE  Accepted!Report(Emptied(t, f, g)) /\ Emptied(t, f, g) \subseteq Fds \X Dirs
  <1> DEFINE ready == Ready(t, f, g)
             S == Emptied(t, f, g)
  <1>1. /\ interest' = IF interest[f].dirs = {} THEN interest
                       ELSE [interest EXCEPT ![f] = [gen |-> g, dirs |-> Left(t, f, g)]]
        /\ waiter' = [s \in Slots |-> IF s \in Fired(t, f, g) THEN 0 ELSE waiter[s]]
        /\ times' = [r \in 1..MaxCalls |->
                       IF r \in Scheduled(t, f, g) /\ times[r] < 2 THEN times[r] + 1
                       ELSE times[r]]
        /\ ready \cap ArmedDirs(f, g) # {}
    BY HandleUnfolds
  <1>2. /\ interest \in [Fds -> [gen : Gens, dirs : SUBSET Dirs]]
        /\ waiter \in [Fds \X Gens \X Dirs -> 0..MaxCalls]
        /\ times \in [1..MaxCalls -> 0..2]
    BY DEF TypeInvariant, TypeOK, Slots
  <1>3. ready \subseteq Dirs
    BY ReadyIsFinite
  <1>4. PICK d0 \in ready : waiter[<<f, g, d0>>] # 0
    <2>1. PICK d \in ready : d \in Dirs /\ <<f, g, d>> \in armed
      BY <1>1 DEF ArmedDirs
    <2>2. waiter[<<f, g, d>>] # 0
      BY <2>1, HeldIsArmed DEF TypeInvariant, TypeOK
    <2> QED
      BY <2>1, <2>2
  <1>5. interest[f].gen = g
    BY <1>3, <1>4, WatchedAlone
  <1>6. S \subseteq Fds \X Dirs /\ <<f, d0>> \in S
    BY <1>3, <1>4 DEF Emptied
  <1>7. \A s \in Slots : s \in Fired(t, f, g) <=> s[1] = f /\ s[2] = g /\ s[3] \in ready
    BY <1>3 DEF Fired, SlotsOf, Slots
  <1> HIDE DEF ready
  <1>8. ASSUME NEW e \in Fds, NEW d \in Dirs
        PROVE  HeldAt(e, d)' = IF <<e, d>> \in S THEN 0 ELSE HeldAt(e, d)
    <2>1. interest'[e].gen = interest[e].gen /\ interest[e].gen \in Gens
      BY <1>1, <1>2, <1>5
    <2>2. HeldAt(e, d)' = IF e = f /\ d \in ready THEN 0 ELSE HeldAt(e, d)
      BY <1>1, <1>5, <1>7, <2>1 DEF HeldAt, Slots
    <2>3. <<e, d>> \in S <=> e = f /\ d \in ready /\ HeldAt(e, d) # 0
      BY <1>5 DEF Emptied, HeldAt, ready
    <2> QED
      BY <2>2, <2>3
  <1>9. \A p \in S : Places[p] # 0 /\ Places[p] = waiter[<<f, g, p[2]>>]
    BY <1>5, <1>6 DEF Emptied, Places, HeldAt
  <1>10. {Places[p] : p \in S} = Scheduled(t, f, g) \ {0}
    <2>1. ASSUME NEW r \in Scheduled(t, f, g), r # 0 PROVE \E p \in S : Places[p] = r
      <3>1. PICK d \in ready : r = waiter[<<f, g, d>>]
        BY DEF Scheduled, Fired, SlotsOf, ready
      <3>2. <<f, d>> \in S /\ <<f, d>>[2] = d
        BY <2>1, <3>1 DEF Emptied, ready
      <3> QED
        BY <1>9, <3>1, <3>2
    <2>2. \A p \in S : p[2] \in ready
      BY DEF Emptied, ready
    <2>3. \A p \in S : Places[p] \in Scheduled(t, f, g)
      BY <1>9, <2>2 DEF Scheduled, Fired, SlotsOf, ready
    <2> QED
      BY <1>9, <2>1, <2>3
  <1>11. WereScheduled' = WereScheduled \cup ({Places[p] : p \in S} \ {})
    <2>1. Scheduled(t, f, g) \subseteq 0..MaxCalls
      BY <1>2, <1>3 DEF Scheduled, Fired, SlotsOf, ready
    <2>2. \A r \in 1..MaxCalls : times'[r] > 0 <=> times[r] > 0 \/ r \in Scheduled(t, f, g)
      BY <1>1, <1>2
    <2>3. WereScheduled' = WereScheduled \cup (Scheduled(t, f, g) \ {0})
      BY <2>1, <2>2, SizesAssumption DEF WereScheduled
    <2> QED
      BY <1>10, <2>3
  <1>12. Places' = [p \in Fds \X Dirs |-> IF p \in S THEN 0 ELSE Places[p]]
    BY <1>8 DEF Places
  <1>13. S # {}
    BY <1>6
  <1> HIDE DEF S
  <1>14. /\ S # {} /\ \A p \in S : Places[p] # 0
         /\ Places' = [p \in Fds \X Dirs |-> IF p \in S THEN 0 ELSE Places[p]]
         /\ WereScheduled' = WereScheduled \cup ({Places[p] : p \in S} \ {})
    BY <1>9, <1>11, <1>12, <1>13
  <1>15. Accepted!Report(S)
    BY <1>14 DEF Accepted!Report, Places, HeldAt, WereScheduled
  <1> QED
    BY <1>6, <1>15 DEF S

LEMMA InitAccepts == Init => Accepted!Init /\ WereScheduled = {}
  <1> SUFFICES ASSUME Init PROVE Accepted!Init /\ WereScheduled = {}
    OBVIOUS
  <1>1. WereScheduled = {}
    BY DEF Init, WereScheduled
  <1>2. \A p \in Fds \X Dirs : waiter[<<p[1], interest[p[1]].gen, p[2]>>] = 0
    BY SizesAssumption DEF Init, Slots, Gens
  <1> QED
    BY <1>1, <1>2 DEF Accepted!Init

(* Threads, contexts, growth of the table and epoll behind them, the       *)
(* callers of addEvent see Registry: a direction of a descriptor has one   *)
(* waiter at most, and a waiter leaves it by being scheduled, once.        *)
THEOREM RegistryImplemented == Spec => ImplementsRegistry
  <1>1. Init => Accepted!Init /\ WereScheduled = {}
    BY InitAccepts
  <1>2. TypeInvariant /\ Registrations /\ Watched /\ [Next]_vars => [Accepted!Next]_(Accepted!vars)
    <2> SUFFICES ASSUME TypeInvariant, Registrations, Watched, [Next]_vars
                 PROVE  [Accepted!Next]_(Accepted!vars)
      OBVIOUS
    <2>1. ASSUME NEW u \in Users, Register(u) PROVE Accepted!Next
      <3>1. <<call[u].fd, call[u].dir>> \in Fds \X Dirs
        BY <2>1 DEF Register, TypeInvariant, Calling, TypeOK
      <3>2. Accepted!Register(<<call[u].fd, call[u].dir>>, made') /\ made' \in 1..MaxCalls
        BY <2>1, RegisterAccepted
      <3> QED
        BY <3>1, <3>2 DEF Accepted!Next, Accepted!Register, Accepted!Apart
    <2>2. ASSUME NEW t \in Pollers, NEW f \in Fds, NEW g \in Gens, Handle(t, f, g)
          PROVE  Accepted!Next
      <3>1. Accepted!Report(Emptied(t, f, g)) /\ Emptied(t, f, g) \in SUBSET (Fds \X Dirs)
        BY <2>2, HandleReports
      <3> QED
        BY <3>1 DEF Accepted!Next, Accepted!Report
    <2>3. CASE UNCHANGED <<eventVars, history>>
      BY <2>3 DEF Accepted!vars, eventVars, history
    <2> QED
      BY <2>1, <2>2, <2>3, StepCases
  <1> QED
    BY <1>1, <1>2, InitTyped, StepTyped, InitRegistrations, StepRegistrations,
       InitWatched, StepWatched, PTL DEF Spec, ImplementsRegistry, Accepted!Spec, WereScheduled
---------------------------------------------------------------------------
(* The pending count, as long as what is triggered is registered.          *)
(* The count does not come near the range of size_t.                       *)
Counting == IsFiniteSet(armed) /\ pending <= made /\ PendingExact

LEMMA InitCounting == Init => Counting
  BY FS_EmptySet DEF Init, Counting, PendingExact

LEMMA RegisterCounts ==
  ASSUME TypeInvariant, Counting, NEW u \in Users, Register(u)
  PROVE  Counting'
  <1>1. /\ Found(u) \notin armed /\ armed' = armed \cup {Found(u)}
        /\ pending' = (pending + 1) % Wrap
        /\ made' = made + 1 /\ made' \in 1..MaxCalls
    BY RegisterTyped DEF Register, Registered
  <1>2. pending \in Nat /\ made \in Nat
    BY DEF TypeInvariant, TypeOK
  <1>3. pending <= made /\ pending = Cardinality(armed)
    BY DEF Counting, PendingExact
  <1>4. pending' = pending + 1
    <2>1. pending + 1 \in 0..(Wrap - 1)
      BY <1>1, <1>2, <1>3, SizesAssumption
    <2>2. \A n \in 0..(Wrap - 1) : n % Wrap = n
      BY SizesAssumption
    <2> QED
      BY <1>1, <2>1, <2>2
  <1>5. IsFiniteSet(armed') /\ Cardinality(armed') = Cardinality(armed) + 1
    BY <1>1, FS_AddElement DEF Counting
  <1> QED
    BY <1>1, <1>2, <1>3, <1>4, <1>5 DEF Counting, PendingExact

(* One, or both, of the two directions are removed.                        *)
LEMMA RemoveReady ==
  ASSUME NEW S, IsFiniteSet(S), NEW f, NEW g, NEW ready \in SUBSET Dirs,
         \A d \in ready : <<f, g, d>> \in S
  PROVE  /\ IsFiniteSet(S \ SlotsOf(f, g, ready)) /\ Cardinality(ready) \in Nat
         /\ Cardinality(S \ SlotsOf(f, g, ready)) = Cardinality(S) - Cardinality(ready)
  <1> DEFINE rest == S \ SlotsOf(f, g, ready)
  <1> SUFFICES /\ IsFiniteSet(rest) /\ Cardinality(ready) \in Nat
               /\ Cardinality(rest) = Cardinality(S) - Cardinality(ready)
    OBVIOUS
  <1>1. Cardinality(S) \in Nat
    BY FS_CardinalityType
  <1>2. CASE ready = {}
    <2>1. rest = S /\ Cardinality(ready) = 0
      BY <1>2, FS_EmptySet DEF SlotsOf
    <2> HIDE DEF rest
    <2> QED
      BY <1>1, <2>1
  <1>3. ASSUME NEW d \in Dirs, ready = {d}
        PROVE  IsFiniteSet(rest) /\ Cardinality(ready) = 1 /\ Cardinality(rest) = Cardinality(S) - 1
    <2>1. rest = S \ {<<f, g, d>>} /\ <<f, g, d>> \in S
      BY <1>3 DEF SlotsOf
    <2>2. Cardinality(ready) = 1
      BY <1>3, FS_Singleton
    <2>3. IsFiniteSet(S \ {<<f, g, d>>}) /\ Cardinality(S \ {<<f, g, d>>}) = Cardinality(S) - 1
      BY <2>1, FS_RemoveElement
    <2> QED
      BY <2>1, <2>2, <2>3
  <1>4. CASE ready = {"READ", "WRITE"}
    <2> DEFINE half == S \ {<<f, g, "READ">>}
    <2>1. <<f, g, "READ">> \in S /\ <<f, g, "WRITE">> \in half
      BY <1>4
    <2>2. rest = half \ {<<f, g, "WRITE">>}
      BY <1>4 DEF SlotsOf
    <2>3. IsFiniteSet(half) /\ Cardinality(half) = Cardinality(S) - 1
      BY <2>1, FS_RemoveElement
    <2> HIDE DEF half, rest
    <2>4. IsFiniteSet(rest) /\ Cardinality(rest) = Cardinality(half) - 1
      BY <2>1, <2>2, <2>3, FS_RemoveElement
    <2>5. Cardinality({"READ"}) = 1 /\ IsFiniteSet({"READ"})
      BY FS_Singleton
    <2>6. Cardinality({"READ"} \cup {"WRITE"}) = 2
      <3>1. "WRITE" \notin {"READ"}
        OBVIOUS
      <3>2. Cardinality({"READ"} \cup {"WRITE"}) = Cardinality({"READ"}) + 1
        BY <2>5, <3>1, FS_AddElement
      <3> QED
        BY <2>5, <3>2
    <2>7. ready = {"READ"} \cup {"WRITE"}
      BY <1>4
    <2>8. Cardinality(ready) = 2
      BY <2>6, <2>7
    <2> QED
      BY <1>1, <2>3, <2>4, <2>8 DEF rest
  <1>5. ready = {} \/ (\E d \in Dirs : ready = {d}) \/ ready = {"READ", "WRITE"}
    BY DEF Dirs
  <1>6. CASE \E d \in Dirs : ready = {d}
    <2>1. IsFiniteSet(rest) /\ Cardinality(ready) = 1 /\ Cardinality(rest) = Cardinality(S) - 1
      BY <1>3, <1>6
    <2> HIDE DEF rest
    <2> QED
      BY <2>1
  <1> HIDE DEF rest
  <1> QED
    BY <1>2, <1>4, <1>5, <1>6

LEMMA HandleCounts ==
  ASSUME TypeInvariant, Counting,
         NEW t \in Pollers, NEW fd \in Fds, NEW g \in Gens, Handle(t, fd, g),
         \A d \in Ready(t, fd, g) : <<fd, g, d>> \in armed
  PROVE  Counting'
  <1> DEFINE ready == Ready(t, fd, g)
  <1>1. /\ armed' = armed \ SlotsOf(fd, g, ready)
        /\ pending' = (pending - Cardinality(ready)) % Wrap
        /\ made' = made
    BY HandleUnfolds DEF Fired
  <1>2. pending \in 0..(Wrap - 1) /\ made \in Nat
    BY DEF TypeInvariant, TypeOK
  <1>3. ready \in SUBSET Dirs
    BY ReadyIsFinite
  <1>4. IsFiniteSet(armed) /\ pending <= made /\ pending = Cardinality(armed)
    BY DEF Counting, PendingExact
  <1>5. \A d \in ready : <<fd, g, d>> \in armed
    OBVIOUS
  <1> HIDE DEF ready
  <1>6. /\ IsFiniteSet(armed') /\ Cardinality(ready) \in Nat
        /\ Cardinality(armed') = Cardinality(armed) - Cardinality(ready)
    BY <1>1, <1>3, <1>4, <1>5, RemoveReady
  <1>7. Cardinality(armed') \in Nat
    BY <1>6, FS_CardinalityType
  <1>8. pending - Cardinality(ready) \in 0..(Wrap - 1)
    BY <1>2, <1>4, <1>6, <1>7, SizesAssumption
  <1>9. \A n \in 0..(Wrap - 1) : n % Wrap = n
    BY SizesAssumption
  <1>10. pending' = pending - Cardinality(ready)
    BY <1>1, <1>8, <1>9
  <1>11. pending' <= made'
    BY <1>1, <1>2, <1>4, <1>6, <1>10
  <1> QED
    BY <1>4, <1>6, <1>10, <1>11 DEF Counting, PendingExact

(* The steps that register or report, and those that at most forget a      *)
(* report.                                                                 *)
LEMMA ReportCases ==
  ASSUME TypeInvariant, [Next]_vars
  PROVE  \/ \E u \in Users : Register(u)
         \/ \E t \in Pollers, fd \in Fds, g \in Gens : Handle(t, fd, g)
         \/ \E t \in Pollers, set \in SUBSET Reportable : Wait(t, set)
         \/ /\ UNCHANGED <<eventVars, made>>
            /\ \A t \in Pollers : reported'[t] \subseteq reported[t]
  <1> DEFINE Forgets == /\ UNCHANGED <<eventVars, made>>
                        /\ \A t \in Pollers : reported'[t] \subseteq reported[t]
  <1>1. ASSUME NEW t \in Pollers, NEW fd \in Fds, NEW g \in Gens, Ignore(t, fd, g) PROVE Forgets
    <2>1. reported' = [reported EXCEPT ![t] = {r \in @ : <<r[1], r[2]>> # <<fd, g>>}]
      BY <1>1 DEF Ignore, Take
    <2> QED
      BY <1>1, <2>1 DEF Ignore, history, TypeInvariant, TypeOK
  <1>2. ASSUME NEW u \in Users,
               Grow(u) \/ Refuse(u) \/ \E fd \in Fds, dir \in Dirs : Lookup(u, fd, dir)
        PROVE  Forgets
    BY <1>2 DEF Grow, Refuse, Lookup, history
  <1>3. CASE UNCHANGED vars
    BY <1>3 DEF vars, history
  <1> QED
    BY <1>1, <1>2, <1>3 DEF Next, UserStep, HandleStep

---------------------------------------------------------------------------
(* One thread in idle().                                                   *)
OnePoller == \A t1, t2 \in Pollers : t1 = t2

(* What epoll watches is registered.                                       *)
Backed == \A f \in Fds : interest[f].dirs # {} =>
            interest[f].dirs = ArmedDirs(f, interest[f].gen)

(* A reported direction is still registered when it is handled.            *)
Current == \A t \in Pollers : \A r \in reported[t] : r[3] \in Dirs => r \in armed

Exact == Backed /\ Current /\ Counting

LEMMA InitExact == Init => Exact
  <1> SUFFICES ASSUME Init PROVE Exact
    OBVIOUS
  <1>1. Backed /\ Current
    BY DEF Init, Backed, Current
  <1> QED
    BY <1>1, InitCounting DEF Exact

LEMMA RegisterExact ==
  ASSUME TypeInvariant, Exact, NEW u \in Users, Register(u)
  PROVE  Exact'
  <1>1. /\ Found(u) \notin armed /\ armed' = armed \cup {Found(u)}
        /\ interest' = [interest EXCEPT ![call[u].fd] = [gen |-> call[u].gen, dirs |-> Mask(u)]]
        /\ reported' = reported
    BY DEF Register, Registered
  <1>2. call[u].fd \in Fds /\ call[u].gen \in Gens /\ call[u].dir \in Dirs
    BY DEF Register, TypeInvariant, Calling, TypeOK
  <1>3. interest \in [Fds -> [gen : Gens, dirs : SUBSET Dirs]]
    BY DEF TypeInvariant, TypeOK
  <1>4. Current'
    BY <1>1 DEF Exact, Current
  <1>5. Counting'
    BY RegisterCounts DEF Exact
  <1>8. Backed'
    <2> SUFFICES ASSUME NEW f \in Fds, interest'[f].dirs # {}
                 PROVE  interest'[f].dirs = {d \in Dirs : <<f, interest'[f].gen, d>> \in armed'}
      BY DEF Backed, ArmedDirs
    <2>1. CASE f = call[u].fd
      <3>1. interest'[f] = [gen |-> call[u].gen, dirs |-> Mask(u)]
        BY <1>1, <1>3, <2>1
      <3> QED
        BY <1>1, <1>2, <2>1, <3>1 DEF Mask, ArmedDirs, Found
    <2>2. CASE f # call[u].fd
      <3>1. interest'[f] = interest[f]
        BY <1>1, <1>3, <2>2
      <3> QED
        BY <1>1, <2>2, <3>1 DEF Exact, Backed, ArmedDirs, Found
    <2> QED
      BY <2>1, <2>2
  <1> QED
    BY <1>4, <1>5, <1>8 DEF Exact

(* With one poller nobody else unregisters what was reported: every        *)
(* direction that idle() triggers is registered.                           *)
LEMMA HandleExact ==
  ASSUME TypeInvariant, Exact, OnePoller,
         NEW t \in Pollers, NEW fd \in Fds, NEW g \in Gens, Handle(t, fd, g)
  PROVE  Exact'
  <1> DEFINE ready == Ready(t, fd, g)
             fired == Fired(t, fd, g)
  <1>1. /\ reported' = [reported EXCEPT ![t] = {r \in @ : <<r[1], r[2]>> # <<fd, g>>}]
        /\ interest' = IF interest[fd].dirs = {} THEN interest
                       ELSE [interest EXCEPT ![fd] = [gen |-> g, dirs |-> Left(t, fd, g)]]
        /\ armed' = armed \ fired
    BY HandleUnfolds
  <1>2. /\ interest \in [Fds -> [gen : Gens, dirs : SUBSET Dirs]]
        /\ reported \in [Pollers -> SUBSET (Fds \X Gens \X (Dirs \cup {"HUP"}))]
    BY DEF TypeInvariant, TypeOK
  <1>3. ready \in SUBSET Dirs
    BY ReadyIsFinite
  <1>4. \A d \in ready : <<fd, g, d>> \in armed
    BY DEF Ready, ArmedDirs, Exact, Current
  <1>5. fired = SlotsOf(fd, g, ready)
    BY DEF Fired
  <1>6. Counting'
    BY <1>4, HandleCounts DEF Exact
  <1>8. Current'
    <2> SUFFICES ASSUME NEW t2 \in Pollers, NEW r \in reported'[t2], r[3] \in Dirs
                 PROVE  r \in armed'
      BY DEF Current
    <2>1. t2 = t
      BY DEF OnePoller
    <2>2. r \in reported[t] /\ <<r[1], r[2]>> # <<fd, g>>
      BY <1>1, <1>2, <2>1
    <2>3. r \in armed
      BY <2>2 DEF Exact, Current
    <2>4. r \notin fired
      BY <1>5, <2>2 DEF SlotsOf
    <2> QED
      BY <1>1, <2>3, <2>4
  <1>9. Backed'
    <2> SUFFICES ASSUME NEW f \in Fds, interest'[f].dirs # {}
                 PROVE  interest'[f].dirs = {d \in Dirs : <<f, interest'[f].gen, d>> \in armed'}
      BY DEF Backed, ArmedDirs
    <2>1. CASE f = fd
      <3>1. interest'[f] = [gen |-> g, dirs |-> Left(t, fd, g)]
        BY <1>1, <1>2, <2>1
      <3>2. Left(t, fd, g) = {d \in Dirs : <<fd, g, d>> \in armed'}
        BY <1>1, <1>5 DEF Left, ArmedDirs, SlotsOf
      <3> QED
        BY <2>1, <3>1, <3>2
    <2>2. CASE f # fd
      <3>1. interest'[f] = interest[f]
        BY <1>1, <1>2, <2>2
      <3> QED
        BY <1>1, <1>5, <2>2, <3>1 DEF Exact, Backed, ArmedDirs, SlotsOf
    <2> QED
      BY <2>1, <2>2
  <1> QED
    BY <1>6, <1>8, <1>9 DEF Exact

LEMMA WaitExact ==
  ASSUME TypeInvariant, Exact, NEW t \in Pollers, NEW set \in SUBSET Reportable, Wait(t, set)
  PROVE  Exact'
  <1>1. reported' = [reported EXCEPT ![t] = set] /\ UNCHANGED <<eventVars, made>>
    BY DEF Wait, history
  <1>2. \A r \in Reportable : r[3] \in Dirs => r \in armed
    <2>1. "HUP" \notin Dirs
      BY DEF Dirs
    <2> QED
      BY <2>1 DEF Reportable, Exact, Backed, ArmedDirs
  <1>3. Current'
    BY <1>1, <1>2 DEF Exact, Current, eventVars, TypeInvariant, TypeOK
  <1>4. Backed' /\ Counting'
    BY <1>1 DEF Exact, Backed, Counting, PendingExact, ArmedDirs, eventVars
  <1> QED
    BY <1>3, <1>4 DEF Exact

(* The steps that touch neither registrations nor reports, and Ignore,     *)
(* which only forgets reports.                                             *)
LEMMA ForgetExact ==
  ASSUME Exact, UNCHANGED <<eventVars, made>>,
         \A t \in Pollers : reported'[t] \subseteq reported[t]
  PROVE  Exact'
  <1>1. Current'
    BY DEF Exact, Current, eventVars
  <1>2. Backed' /\ Counting'
    BY DEF Exact, Backed, Counting, PendingExact, ArmedDirs, eventVars
  <1> QED
    BY <1>1, <1>2 DEF Exact

LEMMA StepExact == OnePoller /\ TypeInvariant /\ Exact /\ [Next]_vars => Exact'
  BY ReportCases, RegisterExact, HandleExact, WaitExact, ForgetExact

(* With one thread in idle(), m_pendingEventCount is the number of         *)
(* registered events, so that stopping() can rely on it.  With two it is   *)
(* not: a report of both directions may be handled when only one of them   *)
(* is registered any more.                                                 *)
THEOREM OnePollerCountsExactly == ASSUME OnePoller PROVE Spec => []PendingExact
  <1>1. Exact => PendingExact
    BY DEF Exact, Counting
  <1>2. TypeInvariant /\ Exact /\ [Next]_vars => Exact'
    BY StepExact
  <1> QED
    BY <1>1, <1>2, InitTyped, StepTyped, InitExact, PTL DEF Spec

---------------------------------------------------------------------------
(* Any number of threads in idle(), and descriptors of which each is used  *)
(* in one direction, way[fd]: nothing else is watched, or reported.        *)
Ways(way) ==
  /\ \A s \in armed : s[3] = way[s[1]]
  /\ \A fd \in Fds : interest[fd].dirs \subseteq {way[fd]}
  /\ \A t \in Pollers : \A r \in reported[t] : r[3] \in Dirs => r[3] = way[r[1]]

OneWayInv(way) == Ways(way) /\ Counting

LEMMA RegisterOneWay ==
  ASSUME NEW way \in [Fds -> Dirs], OneWay(way), TypeInvariant, OneWayInv(way),
         NEW u \in Users, Register(u)
  PROVE  OneWayInv(way)'
  <1>1. /\ armed' = armed \cup {Found(u)} /\ reported' = reported
        /\ interest' = [interest EXCEPT ![call[u].fd] = [gen |-> call[u].gen, dirs |-> Mask(u)]]
    BY DEF Register
  <1>2. interest \in [Fds -> [gen : Gens, dirs : SUBSET Dirs]]
    BY DEF TypeInvariant, TypeOK
  <1>3. call[u].fd \in Fds /\ call[u].dir = way[call[u].fd]
    BY DEF Register, OneWay, TypeInvariant, Calling
  <1>4. \A s \in armed' : s[3] = way[s[1]]
    BY <1>1, <1>3 DEF OneWayInv, Ways, Found
  <1>5. Mask(u) \subseteq {way[call[u].fd]}
    BY <1>3 DEF OneWayInv, Ways, Mask, ArmedDirs
  <1>6. \A f \in Fds : interest'[f].dirs \subseteq {way[f]}
    BY <1>1, <1>2, <1>5 DEF OneWayInv, Ways
  <1>7. Counting'
    BY RegisterCounts DEF OneWayInv
  <1> QED
    BY <1>1, <1>4, <1>6, <1>7 DEF OneWayInv, Ways

(* A report is ignored unless something that is ready is registered, and   *)
(* nothing but way[fd] can be either: nothing else is triggered.           *)
LEMMA HandleOneWay ==
  ASSUME NEW way \in [Fds -> Dirs], TypeInvariant, OneWayInv(way),
         NEW t \in Pollers, NEW fd \in Fds, NEW g \in Gens, Handle(t, fd, g)
  PROVE  OneWayInv(way)'
  <1>1. /\ reported' = [reported EXCEPT ![t] = {r \in @ : <<r[1], r[2]>> # <<fd, g>>}]
        /\ interest' = IF interest[fd].dirs = {} THEN interest
                       ELSE [interest EXCEPT ![fd] = [gen |-> g, dirs |-> Left(t, fd, g)]]
        /\ armed' = armed \ Fired(t, fd, g)
        /\ Ready(t, fd, g) \cap ArmedDirs(fd, g) # {}
    BY HandleUnfolds
  <1>2. /\ interest \in [Fds -> [gen : Gens, dirs : SUBSET Dirs]]
        /\ reported \in [Pollers -> SUBSET (Fds \X Gens \X (Dirs \cup {"HUP"}))]
    BY DEF TypeInvariant, TypeOK
  <1>3. ArmedDirs(fd, g) \subseteq {way[fd]}
    BY DEF OneWayInv, Ways, ArmedDirs
  <1>4. Ready(t, fd, g) \subseteq {way[fd]}
    BY <1>3 DEF OneWayInv, Ways, Ready
  <1>5. \A d \in Ready(t, fd, g) : <<fd, g, d>> \in armed
    BY <1>1, <1>3, <1>4 DEF ArmedDirs
  <1>6. Counting'
    BY <1>5, HandleCounts DEF OneWayInv
  <1>7. Left(t, fd, g) \subseteq {way[fd]}
    BY <1>3 DEF Left
  <1>8. \A f \in Fds : interest'[f].dirs \subseteq {way[f]}
    BY <1>1, <1>2, <1>7 DEF OneWayInv, Ways
  <1>9. \A p \in Pollers : reported'[p] \subseteq reported[p]
    BY <1>1, <1>2
  <1> QED
    BY <1>1, <1>6, <1>8, <1>9 DEF OneWayInv, Ways

LEMMA WaitOneWay ==
  ASSUME NEW way \in [Fds -> Dirs], TypeInvariant, OneWayInv(way),
         NEW t \in Pollers, NEW set \in SUBSET Reportable, Wait(t, set)
  PROVE  OneWayInv(way)'
  <1>1. reported' = [reported EXCEPT ![t] = set] /\ UNCHANGED <<eventVars, made>>
    BY DEF Wait, history
  <1>2. \A r \in Reportable : r[3] \in Dirs => r[3] = way[r[1]]
    <2>1. "HUP" \notin Dirs
      BY DEF Dirs
    <2> QED
      BY <2>1 DEF Reportable, OneWayInv, Ways
  <1> QED
    BY <1>1, <1>2 DEF OneWayInv, Ways, Counting, PendingExact, eventVars, TypeInvariant, TypeOK

LEMMA ForgetOneWay ==
  ASSUME NEW way \in [Fds -> Dirs], OneWayInv(way), UNCHANGED <<eventVars, made>>,
         \A t \in Pollers : reported'[t] \subseteq reported[t]
  PROVE  OneWayInv(way)'
  BY DEF OneWayInv, Ways, Counting, PendingExact, eventVars

LEMMA StepOneWay ==
  ASSUME NEW way \in [Fds -> Dirs]
  PROVE  OneWay(way) /\ TypeInvariant /\ OneWayInv(way) /\ [Next]_vars => OneWayInv(way)'
  BY ReportCases, RegisterOneWay, HandleOneWay, WaitOneWay, ForgetOneWay

LEMMA OneWayAtFirst ==
  ASSUME NEW way \in [Fds -> Dirs]
  PROVE  Init => OneWayInv(way)
  BY InitCounting DEF Init, OneWayInv, Ways

(* Whatever the number of threads in idle(), and through every hang-up,    *)
(* m_pendingEventCount is exact in a program that uses each descriptor in  *)
(* one direction: what goes wrong with several pollers needs both.         *)
THEOREM OneWayCountsExactly ==
  ASSUME NEW way \in [Fds -> Dirs]
  PROVE  Spec /\ []OneWay(way) => []PendingExact
  <1>1. Init => OneWayInv(way)
    BY OneWayAtFirst
  <1>2. OneWay(way) /\ TypeInvariant /\ OneWayInv(way) /\ [Next]_vars => OneWayInv(way)'
    BY StepOneWay
  <1>3. OneWayInv(way) => PendingExact
    BY DEF OneWayInv, Counting
  <1> QED
    BY <1>1, <1>2, <1>3, InitTyped, StepTyped, PTL DEF Spec

(* The case that TLC checks with two pollers: nobody waits to write.       *)
THEOREM ReadersAreCounted == Spec => ReadersCounted
  <1> DEFINE readers == [fd \in Fds |-> "READ"]
  <1>1. readers \in [Fds -> Dirs]
    BY DEF Dirs
  <1> HIDE DEF readers
  <1>2. /\ Init => OneWayInv(readers)
        /\ OneWayInv(readers) => PendingExact
    BY <1>1, OneWayAtFirst DEF OneWayInv, Counting
  <1>3. OneWay(readers) /\ TypeInvariant /\ OneWayInv(readers) /\ [Next]_vars => OneWayInv(readers)'
    BY <1>1, StepOneWay
  <1>4. Spec /\ []OneWay(readers) => []PendingExact
    BY <1>2, <1>3, InitTyped, StepTyped, PTL DEF Spec
  <1> QED
    BY <1>4, PTL DEF ReadersCounted, readers
=============================================================================
