----------------------------- MODULE FdManager -----------------------------
(* The table of descriptor contexts: FdManager and FdCtx, and the hooked   *)
(* calls that consult or change them without waiting (socket, accept,      *)
(* close, setsockopt, ioctl, fcntl).  m_mutex is a std::shared_mutex: a    *)
(* thread in "retain" shares it, a thread in "stuck" owns it, every other  *)
(* critical section is one step.                                           *)
EXTENDS Integers, FiniteSets

CONSTANTS
  Callers,      \* threads that use the interface
  Fds,          \* descriptors
  Names,        \* the calls they make
  Garbage,      \* what the uninitialised flags of an FdCtx may hold
  Detects,      \* whether a thread that locks m_mutex twice gets an exception or blocks
  InitialSize,  \* m_datas.resize(64)
  MaxContexts,  \* bound on the contexts made
  MaxCalls      \* bound on the calls

ASSUME SizesAssumption == /\ Fds \subseteq Nat
                          /\ InitialSize \in Nat \ {0, 1}
                          /\ MaxContexts \in Nat /\ MaxCalls \in Nat
ASSUME ValuesAssumption == /\ Garbage \subseteq BOOLEAN
                           /\ Detects \in BOOLEAN
                           /\ Names \subseteq {"socket", "accept", "close", "sndtimeo",
                                "rcvtimeo", "ioctl", "setfl", "getfl", "get", "init"}

VARIABLES
  kernel,  \* what each descriptor is: "closed", "socket" or "other"
  quick,   \* the descriptors with O_NONBLOCK set in the kernel
  size,    \* m_datas.size()
  table,   \* m_datas: the number of each descriptor's context, 0 for nullptr
  ctx,     \* the contexts made, by number
  made,    \* how many there are
  pc,      \* where each caller is
  op,      \* the call it makes
  seen,    \* the size it found too small
  got,     \* the context its lookup returned, 0 for none
  calls

kernelVars == <<kernel, quick>>
tableVars  == <<size, table, ctx, made>>
callVars   == <<op, seen, got, calls>>
vars == <<kernelVars, tableVars, pc, callVars>>

Numbers == 1..MaxContexts
Dangling == MaxContexts + 1

(* The hooks, get(fd, true) and FdCtx::init() called by the application.   *)
Hooks == {"socket", "accept", "close", "sndtimeo", "rcvtimeo", "ioctl", "setfl", "getfl"}
Switching == {"ioctl", "setfl"}
Calls == {call \in [name : Names, fd : Fds, flag : BOOLEAN] :
            call.flag => call.name \in Switching}
NoCall == [name |-> "none", fd |-> 0, flag |-> FALSE]
Creating == {"socket", "accept", "get"}

Context == [socket : BOOLEAN, closed : BOOLEAN, userNonblock : BOOLEAN,
            sysNonblock : BOOLEAN, timed : SUBSET {"READ", "WRITE"}]

TypeOK ==
  /\ kernel \in [Fds -> {"closed", "socket", "other"}]
  /\ quick \subseteq Fds
  /\ size \in Nat
  /\ table \in [Fds -> Numbers \cup {0}]
  /\ made \in Numbers \cup {0}
  /\ ctx \in [Numbers -> Context]
  /\ pc \in [Callers -> {"free", "lookup", "retain", "grow", "use", "erase", "stuck"}]
  /\ op \in [Callers -> Calls \cup {NoCall}]
  /\ seen \in [Callers -> Nat]
  /\ got \in [Callers -> 0..Dangling]
  /\ calls \in 0..MaxCalls

(* A context before it is used.                                            *)
Blank == [socket |-> FALSE, closed |-> FALSE, userNonblock |-> FALSE,
          sysNonblock |-> FALSE, timed |-> {}]

Init ==
  /\ kernel \in [Fds -> {"closed", "other"}] /\ quick = {}
  /\ size = InitialSize
  /\ table = [d \in Fds |-> 0]
  /\ ctx = [i \in Numbers |-> Blank] /\ made = 0
  /\ pc = [c \in Callers |-> "free"]
  /\ op = [c \in Callers |-> NoCall]
  /\ seen = [c \in Callers |-> 0]
  /\ got = [c \in Callers |-> 0]
  /\ calls = 0

---------------------------------------------------------------------------
Goto(c, label) == pc' = [pc EXCEPT ![c] = label]
Fd(c) == op[c].fd

(* No thread holds the lock exclusively; no thread holds it at all.        *)
Shareable == \A c \in Callers : pc[c] # "stuck"
Free == Shareable /\ \A c \in Callers : pc[c] # "retain"

(* A call starts with FdManager::get.  socket() and accept() have just     *)
(* been given a descriptor by the kernel; a thread that asks for a context *)
(* itself, or calls init() on one, has an open descriptor.                 *)
Begin(c, call) ==
  /\ pc[c] = "free"
  /\ calls < MaxCalls
  /\ calls' = calls + 1
  /\ op' = [op EXCEPT ![c] = call]
  /\ Goto(c, "lookup")
  /\ IF call.name \in {"socket", "accept"}
     THEN /\ kernel[call.fd] = "closed"
          /\ kernel' = [kernel EXCEPT ![call.fd] = "socket"]
     ELSE kernel[call.fd] # "closed" /\ kernel' = kernel
  /\ UNCHANGED <<quick, tableVars, seen, got>>

(* get() under the shared lock: the descriptor is beyond the table, its    *)
(* entry is null, or there is a shared_ptr to copy.                        *)
Beyond(c) ==
  /\ pc[c] = "lookup" /\ Shareable
  /\ Fd(c) >= size
  /\ seen' = [seen EXCEPT ![c] = size]
  /\ got' = [got EXCEPT ![c] = 0]
  /\ Goto(c, IF op[c].name \in Creating THEN "grow" ELSE "use")
  /\ UNCHANGED <<kernelVars, tableVars, op, calls>>

Look(c) ==
  /\ pc[c] = "lookup" /\ Shareable
  /\ Fd(c) < size
  /\ got' = [got EXCEPT ![c] = table[Fd(c)]]
  /\ Goto(c, IF table[Fd(c)] = 0 THEN "use" ELSE "retain")
  /\ UNCHANGED <<kernelVars, tableVars, op, seen, calls>>

(* A context lives while the table or a caller refers to it; a reference   *)
(* taken after the last one was dropped dangles.                           *)
Alive(i) == \/ \E d \in Fds : table[d] = i
            \/ \E e \in Callers : pc[e] \in {"use", "erase"} /\ got[e] = i

Retain(c) ==
  /\ pc[c] = "retain"
  /\ got' = [got EXCEPT ![c] = IF Alive(got[c]) THEN got[c] ELSE Dangling]
  /\ Goto(c, "use")
  /\ UNCHANGED <<kernelVars, tableVars, op, seen, calls>>

(* fd * 1.5, converted to size_t.                                          *)
Resized(d) == (3 * d) \div 2

(* Mutant of Kept: the new entries are not null.                           *)
KeptWrongFill(n) == [d \in Fds |-> IF d < n THEN IF d < size THEN table[d] ELSE Dangling
                                            ELSE 0]

(* resize(n) keeps the entries below n; new ones are null.                 *)
Kept(n) == [d \in Fds |-> IF d < n THEN table[d] ELSE 0]

(* get() under the exclusive lock, without asking for the size again: the  *)
(* table is resized and a context made, whose init() finds no socket.      *)
(* m_isClose and m_userNonblock are not initialised.                       *)
Grow(c) ==
  /\ pc[c] = "grow" /\ Free
  /\ kernel[Fd(c)] # "socket"
  /\ made < MaxContexts
  /\ size' = Resized(Fd(c))
  /\ made' = made + 1
  /\ \E closed \in Garbage, user \in Garbage :
       ctx' = [ctx EXCEPT ![made'] = [Blank EXCEPT !.closed = closed, !.userNonblock = user]]
  /\ table' = [Kept(size') EXCEPT ![Fd(c)] = made']
  /\ got' = [got EXCEPT ![c] = made']
  /\ Goto(c, "use")
  /\ UNCHANGED <<kernelVars, op, seen, calls>>

(* Mutant of SelfLock: the second lock of m_mutex is not noticed.          *)
SelfLockWrongBlocks(c) ==
  /\ pc[c] = "grow" /\ Free
  /\ kernel[Fd(c)] = "socket"
  /\ size' = Resized(Fd(c))
  /\ table' = Kept(size')
  /\ Goto(c, "stuck")
  /\ UNCHANGED <<kernelVars, ctx, made, callVars>>

(* For a socket init() calls fcntl(F_GETFL), the hook asks get() for the   *)
(* descriptor, and the thread locks m_mutex a second time: undefined, an   *)
(* exception with glibc, a thread that waits for itself elsewhere.         *)
SelfLock(c) ==
  /\ pc[c] = "grow" /\ Free
  /\ kernel[Fd(c)] = "socket"
  /\ size' = Resized(Fd(c))
  /\ table' = Kept(size')
  /\ Goto(c, IF Detects THEN "free" ELSE "stuck")
  /\ UNCHANGED <<kernelVars, ctx, made, callVars>>

---------------------------------------------------------------------------
(* What the hook does with the context its lookup returned.                *)
Finish(c) == /\ Goto(c, "free")
             /\ op' = [op EXCEPT ![c] = NoCall]
             /\ got' = [got EXCEPT ![c] = 0]
             /\ seen' = [seen EXCEPT ![c] = 0]
             /\ UNCHANGED <<size, table, made, calls>>

(* The context says: a socket that is not closed.                          *)
Managed(i) == i # 0 /\ ctx[i].socket /\ ~ctx[i].closed

Quick(c) == IF op[c].flag THEN quick \cup {Fd(c)} ELSE quick \ {Fd(c)}

Using(c, names) == pc[c] = "use" /\ op[c].name \in names /\ got[c] # Dangling

(* socket() and accept() ignore what get() returned.                       *)
Opened(c) == /\ Using(c, Creating)
             /\ Finish(c)
             /\ UNCHANGED <<kernelVars, ctx>>

(* FdCtx::setTimeout: which of the two timeouts it notes.                  *)
TimeoutOf(c) == IF op[c].name = "rcvtimeo" THEN "READ" ELSE "WRITE"

(* setsockopt: without a context -1, else the timeout is noted and         *)
(* setsockopt_f called.                                                    *)
SetTimeout(c) ==
  /\ Using(c, {"sndtimeo", "rcvtimeo"})
  /\ ctx' = IF got[c] = 0 THEN ctx ELSE [ctx EXCEPT ![got[c]].timed = @ \cup {TimeoutOf(c)}]
  /\ Finish(c)
  /\ UNCHANGED kernelVars

(* ioctl(FIONBIO): the user's wish is noted for a socket; ioctl_f follows. *)
Ioctl(c) ==
  /\ Using(c, {"ioctl"})
  /\ ctx' = IF Managed(got[c]) THEN [ctx EXCEPT ![got[c]].userNonblock = op[c].flag] ELSE ctx
  /\ quick' = Quick(c)
  /\ Finish(c)
  /\ UNCHANGED kernel

(* fcntl(F_SETFL): the flag goes to sysNonblock, and to the kernel.        *)
SetFlags(c) ==
  /\ Using(c, {"setfl"})
  /\ ctx' = IF Managed(got[c]) THEN [ctx EXCEPT ![got[c]].sysNonblock = op[c].flag] ELSE ctx
  /\ quick' = Quick(c)
  /\ Finish(c)
  /\ UNCHANGED kernel

(* fcntl(F_GETFL) changes nothing.                                         *)
GetFlags(c) == /\ Using(c, {"getfl"})
               /\ Finish(c)
               /\ UNCHANGED <<kernelVars, ctx>>

(* FdCtx::init() on a context of the table: `!(flags)&O_NONBLOCK' is 0, so *)
(* the descriptor is left as it is and m_sysNonblock is false.             *)
Reinit(c) ==
  /\ Using(c, {"init"})
  /\ ctx' = IF got[c] = 0 THEN ctx
            ELSE [ctx EXCEPT ![got[c]].socket = (kernel[Fd(c)] = "socket"),
                             ![got[c]].sysNonblock = FALSE]
  /\ Finish(c)
  /\ UNCHANGED kernelVars

(* close() with hooks: without a context nothing, else cancelAll(), which  *)
(* does nothing, and del().  close_f is not called.                        *)
CloseNothing(c) == /\ Using(c, {"close"}) /\ got[c] = 0
                   /\ Finish(c)
                   /\ UNCHANGED <<kernelVars, ctx>>

Close(c) == /\ Using(c, {"close"}) /\ got[c] # 0
            /\ Goto(c, "erase")
            /\ UNCHANGED <<kernelVars, tableVars, callVars>>

(* Mutant of Erase: del() of a descriptor erases whatever is behind it too.*)
EraseWrongTail(c) ==
  /\ pc[c] = "erase" /\ Shareable
  /\ table' = Kept(Fd(c))
  /\ Goto(c, "free")
  /\ op' = [op EXCEPT ![c] = NoCall]
  /\ got' = [got EXCEPT ![c] = 0]
  /\ UNCHANGED <<kernelVars, size, ctx, made, seen, calls>>

(* del() writes under the shared lock.                                     *)
Erase(c) ==
  /\ pc[c] = "erase" /\ Shareable
  /\ table' = IF Fd(c) < size THEN [table EXCEPT ![Fd(c)] = 0] ELSE table
  /\ Goto(c, "free")
  /\ op' = [op EXCEPT ![c] = NoCall]
  /\ got' = [got EXCEPT ![c] = 0]
  /\ UNCHANGED <<kernelVars, size, ctx, made, seen, calls>>

(* A freed context answers anything; close() goes on to del().             *)
UseDangling(c) ==
  /\ pc[c] = "use" /\ got[c] = Dangling
  /\ IF op[c].name = "close" THEN Goto(c, "erase") /\ UNCHANGED <<quick, op, got>>
     ELSE /\ quick' \in IF op[c].name \in Switching THEN {Quick(c)} ELSE {quick}
          /\ Goto(c, "free")
          /\ op' = [op EXCEPT ![c] = NoCall]
          /\ got' = [got EXCEPT ![c] = 0]
  /\ UNCHANGED <<kernel, tableVars, seen, calls>>

(* fcntl passes F_DUPFD on: a duplicate of a socket gets no context.       *)
Duplicate(d) == /\ kernel[d] # "socket"
                /\ kernel' = [kernel EXCEPT ![d] = "socket"]
                /\ quick' = quick \ {d}
                /\ UNCHANGED <<tableVars, pc, callVars>>

(* close() with the hooks off leaves the context in the table.             *)
RawClose(d) == /\ kernel[d] # "closed"
               /\ calls < MaxCalls /\ calls' = calls + 1
               /\ kernel' = [kernel EXCEPT ![d] = "closed"]
               /\ quick' = quick \ {d}
               /\ UNCHANGED <<tableVars, pc, op, seen, got>>

---------------------------------------------------------------------------
Get(c) == Beyond(c) \/ Look(c) \/ Retain(c) \/ Grow(c) \/ SelfLock(c)

Use(c) == \/ Opened(c) \/ SetTimeout(c) \/ Ioctl(c) \/ SetFlags(c) \/ GetFlags(c) \/ Reinit(c)
          \/ CloseNothing(c) \/ Close(c) \/ Erase(c) \/ UseDangling(c)

Next == \/ \E c \in Callers : (\E call \in Calls : Begin(c, call)) \/ Get(c) \/ Use(c)
        \/ \E d \in Fds : Duplicate(d) \/ RawClose(d)

Spec == Init /\ [][Next]_vars

(* A call that has begun goes on; the lock is granted in the end to a      *)
(* thread that wants it exclusively.                                       *)
FairSpec == Spec /\ \A c \in Callers : WF_vars(Get(c) \/ Use(c)) /\ SF_vars(Grow(c) \/ SelfLock(c))

---------------------------------------------------------------------------
(* Every context is stored inside the table (m_datas[fd] after             *)
(* resize(fd * 1.5), fd_manager.cc:75), and under one descriptor only.     *)
TableSound ==
  /\ \A d \in Fds : table[d] # 0 => d < size /\ table[d] <= made
  /\ \A d, e \in Fds : table[d] # 0 /\ table[d] = table[e] => d = e

(* A context leaves the table, or is replaced, only when its descriptor is *)
(* closed, or when a thread resizes that saw a smaller table: get() does   *)
(* not ask for the size again after it changed locks (fd_manager.cc:74).   *)
EntriesSurvive ==
  [][\A d \in Fds : table[d] # 0 /\ table'[d] # table[d] =>
       \/ \E c \in Callers : pc[c] = "erase" /\ Fd(c) = d
       \/ \E c \in Callers : pc[c] = "grow" /\ pc'[c] # "grow" /\ seen[c] < size]_vars

(* Every call of a hook returns, or ends with an exception, as long as the *)
(* lock detects that its owner asks for it again (fd_manager.cc:76).       *)
CallsEnd == \A c \in Callers : pc[c] # "free" ~> pc[c] = "free"
=============================================================================
