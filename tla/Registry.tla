------------------------------ MODULE Registry ------------------------------
(* What IOManager promises about registered events, with no descriptor     *)
(* table, no contexts and no epoll: each place (a direction of a           *)
(* descriptor) holds one waiter at most, a waiter leaves its place when it *)
(* is scheduled and not otherwise, and waits in one place only.            *)
(* EventTable.tla implements it; the calls of HookIo.tla are its clients.  *)
CONSTANTS
  Places,
  Waiters,
  Anonymous,  \* waiters that may be in several places: callbacks
  Nobody

VARIABLES
  held,       \* who waits in a place, or Nobody
  scheduled   \* the waiters, Anonymous apart, that have been scheduled

vars == <<held, scheduled>>

Init == held = [p \in Places |-> Nobody]

Apart(w) == w \notin scheduled /\ \A p \in Places : held[p] # w

Register(p, w) ==
  /\ held[p] = Nobody
  /\ w \in Anonymous \/ Apart(w)
  /\ held' = [held EXCEPT ![p] = w]
  /\ UNCHANGED scheduled

(* The waiters of several places may be scheduled at once.                 *)
Report(set) ==
  /\ set # {} /\ \A p \in set : held[p] # Nobody
  /\ held' = [p \in Places |-> IF p \in set THEN Nobody ELSE held[p]]
  /\ scheduled' = scheduled \cup ({held[p] : p \in set} \ Anonymous)

Next == \/ \E p \in Places, w \in Waiters : Register(p, w)
        \/ \E set \in SUBSET Places : Report(set)

(* Each waiter registers once in its life.                                 *)
Spec == Init /\ scheduled = {} /\ [][Next]_vars

(* A waiter that was scheduled goes on and may wait again; it may also be  *)
(* scheduled for another reason, by its client.                            *)
Resume(w) == /\ w \in scheduled
             /\ scheduled' = scheduled \ {w}
             /\ UNCHANGED held

Wake(w) == /\ Apart(w)
           /\ scheduled' = scheduled \cup {w}
           /\ UNCHANGED held

ClientSpec == Init /\ [][Next \/ \E w \in Waiters : Resume(w) \/ Wake(w)]_vars
=============================================================================
