----------------------------- MODULE TaskPool -----------------------------
(* What a scheduler promises to the fibers handed to it, with no threads,  *)
(* queue, locks or counters: a requested fiber is run by at most one       *)
(* thread at a time, is run or found finished after every request, never   *)
(* runs again once it has finished, and the pool only closes when no       *)
(* request is left.  Scheduler.tla and Startup.tla implement it.           *)
CONSTANT Fibers

VARIABLES state,      \* state[f]: READY, RUNNING or TERM (fiber.h:12-16)
          requested,  \* fibers that somebody asked to run and that have not run since
          closed      \* stop() has returned

vars == <<state, requested, closed>>

TypeOK == /\ state \in [Fibers -> {"READY", "RUNNING", "TERM"}]
          /\ requested \subseteq Fibers
          /\ closed \in BOOLEAN

Init == /\ state = [f \in Fibers |-> "READY"]
        /\ requested = {}
        /\ closed = FALSE

(* A fiber may be requested in any state, several times.                   *)
Request(f) == /\ ~closed
              /\ requested' = requested \cup {f}
              /\ UNCHANGED <<state, closed>>

(* Serving one request of f; f stays requested when it was asked for twice.*)
Serve(f) == /\ f \in requested
            /\ requested' \in {requested, requested \ {f}}
            /\ UNCHANGED closed

Start(f) == /\ Serve(f)
            /\ state[f] = "READY"
            /\ state' = [state EXCEPT ![f] = "RUNNING"]

Skip(f) == /\ Serve(f)
           /\ state[f] = "TERM"
           /\ UNCHANGED state

Suspend(f) == /\ state[f] = "RUNNING"
              /\ state' = [state EXCEPT ![f] = "READY"]
              /\ UNCHANGED <<requested, closed>>

Finish(f) == /\ state[f] = "RUNNING"
             /\ state' = [state EXCEPT ![f] = "TERM"]
             /\ UNCHANGED <<requested, closed>>

Close == /\ requested = {}
         /\ \A f \in Fibers : state[f] # "RUNNING"
         /\ closed' = TRUE
         /\ UNCHANGED <<state, requested>>

Next == \/ \E f \in Fibers : Request(f) \/ Start(f) \/ Skip(f) \/ Suspend(f) \/ Finish(f)
        \/ Close

Spec == Init /\ [][Next]_vars

Fairness == \A f \in Fibers : /\ WF_vars(Start(f) \/ Skip(f))
                              /\ WF_vars(Suspend(f) \/ Finish(f))

FairSpec == Spec /\ Fairness
=============================================================================
