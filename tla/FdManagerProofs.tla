--------------------------- MODULE FdManagerProofs ---------------------------
(* For any callers, descriptors and calls: the table of contexts is sound, *)
(* and what may change an entry is known.                                  *)
EXTENDS FdManager, TLAPS

(* resize(fd * 1.5) makes room for fd, which is at least the old size.     *)
LEMMA ResizedGrows == \A d \in Nat : d >= 2 => Resized(d) \in Nat /\ Resized(d) > d
  BY DEF Resized

(* The truth values, apart from the rest of TypeOK.                        *)
Flags == ctx \in [Numbers -> Context]

Shapes ==
  /\ kernel \in [Fds -> {"closed", "socket", "other"}]
  /\ quick \subseteq Fds
  /\ size \in Nat
  /\ table \in [Fds -> Numbers \cup {0}]
  /\ made \in Numbers \cup {0}
  /\ pc \in [Callers -> {"free", "lookup", "retain", "grow", "use", "erase", "stuck"}]
  /\ op \in [Callers -> Calls \cup {NoCall}]
  /\ seen \in [Callers -> Nat]
  /\ got \in [Callers -> 0..Dangling]
  /\ calls \in 0..MaxCalls

(* A caller is in a call unless it is free; one that will resize the table *)
(* saw one too small for its descriptor.                                   *)
InCall ==
  /\ size >= 2
  /\ \A c \in Callers :
       /\ pc[c] # "free" => op[c] \in Calls
       /\ pc[c] = "grow" => Fd(c) >= seen[c] /\ seen[c] >= 2
       /\ pc[c] = "retain" => got[c] \in Numbers

Inv == Flags /\ Shapes /\ InCall /\ TableSound

LEMMA Parts == TypeOK <=> Flags /\ Shapes
  BY DEF TypeOK, Flags, Shapes

LEMMA CallFields == \A call \in Calls : /\ call.fd \in Fds /\ call.flag \in BOOLEAN
                                        /\ call.name \in Names
  BY DEF Calls

LEMMA Resizing ==
  ASSUME Shapes, InCall, NEW c \in Callers, pc[c] = "grow"
  PROVE  /\ op[c] \in Calls /\ Fd(c) \in Fds /\ Fd(c) \in Nat
         /\ seen[c] \in Nat /\ Fd(c) >= seen[c] /\ Fd(c) >= 2
<1>1. op[c] \in Calls /\ Fd(c) >= seen[c] /\ seen[c] >= 2
  BY DEF InCall
<1>2. Fd(c) \in Fds /\ Fd(c) \in Nat
  BY <1>1, CallFields, SizesAssumption DEF Fd
<1>3. seen[c] \in Nat
  BY DEF Shapes
<1> QED
  BY <1>1, <1>2, <1>3

(* What the hooks write into a context.                                    *)
LEMMA ContextKept ==
  ASSUME NEW x \in Context, NEW b \in BOOLEAN, NEW t \in {"READ", "WRITE"}
  PROVE  /\ [x EXCEPT !.timed = @ \cup {t}] \in Context
         /\ [x EXCEPT !.userNonblock = b] \in Context
         /\ [x EXCEPT !.sysNonblock = b] \in Context
         /\ [x EXCEPT !.socket = b, !.sysNonblock = FALSE] \in Context
  BY DEF Context

LEMMA Written ==
  ASSUME Flags, NEW i \in Numbers, NEW x \in Context, ctx' = [ctx EXCEPT ![i] = x]
  PROVE  Flags'
  BY DEF Flags

LEMMA GotNumber ==
  ASSUME Shapes, NEW c \in Callers, got[c] # 0, got[c] # Dangling
  PROVE  got[c] \in Numbers
<1>1. got[c] \in 0..(MaxContexts + 1) /\ MaxContexts \in Nat
  BY SizesAssumption DEF Shapes, Dangling
<1> QED
  BY <1>1 DEF Numbers, Dangling

LEMMA InitInv == Init => Inv
<1> SUFFICES ASSUME Init PROVE Inv
  OBVIOUS
<1>1. Flags
  BY DEF Init, Flags, Context, Blank
<1>2. Shapes
  BY SizesAssumption DEF Init, Shapes, Dangling, Numbers
<1>3. InCall /\ TableSound
  BY SizesAssumption DEF Init, InCall, TableSound
<1> QED
  BY <1>1, <1>2, <1>3 DEF Inv

LEMMA StepFlags == Inv /\ [Next]_vars => Flags'
<1> SUFFICES ASSUME Inv, [Next]_vars PROVE Flags'
  OBVIOUS
<1>0. Flags /\ Shapes /\ InCall /\ Garbage \subseteq BOOLEAN
  BY ValuesAssumption DEF Inv
<1>a. \A c \in Callers : pc[c] # "free" => op[c].flag \in BOOLEAN
  BY <1>0, CallFields DEF InCall
<1> USE <1>0 DEF Flags, Finish, Using, kernelVars, tableVars, callVars
<1>1. ASSUME NEW c \in Callers, NEW call \in Calls, Begin(c, call) PROVE Flags'
  BY <1>1 DEF Begin
<1>2. ASSUME NEW c \in Callers, Beyond(c) PROVE Flags'
  BY <1>2 DEF Beyond
<1>3. ASSUME NEW c \in Callers, Look(c) PROVE Flags'
  BY <1>3 DEF Look
<1>4. ASSUME NEW c \in Callers, Retain(c) PROVE Flags'
  BY <1>4 DEF Retain
<1>5. ASSUME NEW c \in Callers, Grow(c) PROVE Flags'
  <2>1. PICK closed \in Garbage, user \in Garbage :
          ctx' = [ctx EXCEPT ![made'] = [Blank EXCEPT !.closed = closed, !.userNonblock = user]]
    BY <1>5 DEF Grow
  <2>2. [Blank EXCEPT !.closed = closed, !.userNonblock = user] \in Context
    BY DEF Blank, Context
  <2>3. made' \in Numbers
    <3>1. made \in (1..MaxContexts) \cup {0} /\ made' = made + 1 /\ made < MaxContexts
      BY <1>5, <1>0 DEF Grow, Shapes, Numbers
    <3> QED
      BY <3>1, SizesAssumption DEF Numbers
  <2> QED
    BY <2>1, <2>2, <2>3, Written
<1>6. ASSUME NEW c \in Callers, SelfLock(c) PROVE Flags'
  BY <1>6 DEF SelfLock
<1>7. ASSUME NEW c \in Callers, Opened(c) PROVE Flags'
  BY <1>7 DEF Opened
<1>8. ASSUME NEW c \in Callers, SetTimeout(c) PROVE Flags'
  <2>1. CASE UNCHANGED ctx
    BY <2>1
  <2>2. ASSUME ctx # ctx' PROVE Flags'
    <3>1. got[c] # 0 /\ got[c] # Dangling /\ ctx' = [ctx EXCEPT ![got[c]] = [ctx[got[c]] EXCEPT !.timed = @ \cup {TimeoutOf(c)}]]
      BY <1>8, <2>2 DEF SetTimeout, TimeoutOf, Managed
    <3>2. got[c] \in Numbers
      BY <3>1, GotNumber
    <3>3. [ctx[got[c]] EXCEPT !.timed = @ \cup {TimeoutOf(c)}] \in Context
      BY <1>8, <1>a, <3>2, ContextKept DEF SetTimeout, TimeoutOf
    <3> QED
      BY <3>1, <3>2, <3>3, Written
  <2> QED
    BY <2>1, <2>2
<1>9. ASSUME NEW c \in Callers, Ioctl(c) PROVE Flags'
  <2>1. CASE UNCHANGED ctx
    BY <2>1
  <2>2. ASSUME ctx # ctx' PROVE Flags'
    <3>1. got[c] # 0 /\ got[c] # Dangling /\ ctx' = [ctx EXCEPT ![got[c]] = [ctx[got[c]] EXCEPT !.userNonblock = op[c].flag]]
      BY <1>9, <2>2 DEF Ioctl, Managed
    <3>2. got[c] \in Numbers
      BY <3>1, GotNumber
    <3>3. [ctx[got[c]] EXCEPT !.userNonblock = op[c].flag] \in Context
      BY <1>9, <1>a, <3>2, ContextKept DEF Ioctl
    <3> QED
      BY <3>1, <3>2, <3>3, Written
  <2> QED
    BY <2>1, <2>2
<1>10. ASSUME NEW c \in Callers, SetFlags(c) PROVE Flags'
  <2>1. CASE UNCHANGED ctx
    BY <2>1
  <2>2. ASSUME ctx # ctx' PROVE Flags'
    <3>1. got[c] # 0 /\ got[c] # Dangling /\ ctx' = [ctx EXCEPT ![got[c]] = [ctx[got[c]] EXCEPT !.sysNonblock = op[c].flag]]
      BY <1>10, <2>2 DEF SetFlags, Managed
    <3>2. got[c] \in Numbers
      BY <3>1, GotNumber
    <3>3. [ctx[got[c]] EXCEPT !.sysNonblock = op[c].flag] \in Context
      BY <1>10, <1>a, <3>2, ContextKept DEF SetFlags
    <3> QED
      BY <3>1, <3>2, <3>3, Written
  <2> QED
    BY <2>1, <2>2
<1>11. ASSUME NEW c \in Callers, GetFlags(c) PROVE Flags'
  BY <1>11 DEF GetFlags
<1>12. ASSUME NEW c \in Callers, Reinit(c) PROVE Flags'
  <2>1. CASE UNCHANGED ctx
    BY <2>1
  <2>2. ASSUME ctx # ctx' PROVE Flags'
    <3>1. got[c] # 0 /\ got[c] # Dangling /\ ctx' = [ctx EXCEPT ![got[c]] = [ctx[got[c]] EXCEPT !.socket = (kernel[Fd(c)] = "socket"), !.sysNonblock = FALSE]]
      BY <1>12, <2>2 DEF Reinit, Managed
    <3>2. got[c] \in Numbers
      BY <3>1, GotNumber
    <3>3. [ctx[got[c]] EXCEPT !.socket = (kernel[Fd(c)] = "socket"), !.sysNonblock = FALSE] \in Context
      BY <1>12, <1>a, <3>2, ContextKept DEF Reinit
    <3> QED
      BY <3>1, <3>2, <3>3, Written
  <2> QED
    BY <2>1, <2>2
<1>13. ASSUME NEW c \in Callers, CloseNothing(c) PROVE Flags'
  BY <1>13 DEF CloseNothing
<1>14. ASSUME NEW c \in Callers, Close(c) PROVE Flags'
  BY <1>14 DEF Close
<1>15. ASSUME NEW c \in Callers, Erase(c) PROVE Flags'
  BY <1>15 DEF Erase
<1>16. ASSUME NEW c \in Callers, UseDangling(c) PROVE Flags'
  BY <1>16 DEF UseDangling
<1>17. ASSUME NEW d \in Fds, Duplicate(d) PROVE Flags'
  BY <1>17 DEF Duplicate
<1>18. ASSUME NEW d \in Fds, RawClose(d) PROVE Flags'
  BY <1>18 DEF RawClose
<1>19. CASE UNCHANGED vars
  BY <1>19 DEF vars
<1> HIDE DEF Flags, Finish, Using, kernelVars, tableVars, callVars
<1> QED
  BY <1>1, <1>2, <1>3, <1>4, <1>5, <1>6, <1>7, <1>8, <1>9, <1>10,
     <1>11, <1>12, <1>13, <1>14, <1>15, <1>16, <1>17, <1>18, <1>19
     DEF Next, Get, Use

Rest == Shapes /\ InCall /\ TableSound

LEMMA StepRest == Inv /\ [Next]_vars => Rest'
<1> SUFFICES ASSUME Inv, [Next]_vars PROVE Rest'
  OBVIOUS
<1>0. Shapes /\ InCall /\ TableSound
  BY DEF Inv
<1>a. \A c \in Callers : pc[c] # "free" => Fd(c) \in Fds
  BY <1>0, CallFields DEF InCall, Fd
<1> USE <1>0, <1>a, SizesAssumption
        DEF Rest, Shapes, InCall, TableSound, Goto, Fd, Finish, Using, kernelVars, tableVars, callVars, Numbers, Dangling
<1> HIDE DEF Calls, NoCall
<1>1. ASSUME NEW c \in Callers, NEW call \in Calls, Begin(c, call) PROVE Rest'
  BY <1>1 DEF Begin
<1>2. ASSUME NEW c \in Callers, Beyond(c) PROVE Rest'
  BY <1>2 DEF Beyond
<1>3. ASSUME NEW c \in Callers, Look(c) PROVE Rest'
  <2>1. table[Fd(c)] \in Numbers \cup {0} /\ Fd(c) \in Fds
    BY <1>3 DEF Look
  <2> QED
    BY <1>3, <2>1 DEF Look
<1>4. ASSUME NEW c \in Callers, Retain(c) PROVE Rest'
  BY <1>4 DEF Retain
<1>5. ASSUME NEW c \in Callers, Grow(c) PROVE Rest'
  <2>0. pc[c] = "grow"
    BY <1>5 DEF Grow
  <2>1. Fd(c) \in Fds /\ Fd(c) \in Nat /\ Fd(c) >= 2 /\ size' = Resized(Fd(c)) /\ made' = made + 1 /\ made < MaxContexts
    BY <1>5, <2>0, Resizing DEF Grow
  <2>2. size' \in Nat /\ size' > Fd(c)
    BY <2>1, ResizedGrows
  <2>3. table' = [Kept(size') EXCEPT ![Fd(c)] = made']
    BY <1>5 DEF Grow
  <2>4. /\ table' \in [Fds -> Numbers \cup {0}] /\ table'[Fd(c)] = made'
        /\ \A d \in Fds : d # Fd(c) => table'[d] = IF d < size' THEN table[d] ELSE 0
    BY <2>1, <2>3 DEF Kept
  <2>5. TableSound'
    BY <2>1, <2>2, <2>4
  <2>6. \A e \in Callers : e # c => pc'[e] = pc[e]
    BY <1>5 DEF Grow
  <2> QED
    BY <1>5, <2>1, <2>2, <2>4, <2>5, <2>6 DEF Grow
<1>6. ASSUME NEW c \in Callers, SelfLock(c) PROVE Rest'
  <2>0. pc[c] = "grow"
    BY <1>6 DEF SelfLock
  <2>1. Fd(c) \in Fds /\ Fd(c) \in Nat /\ Fd(c) >= 2 /\ size' = Resized(Fd(c))
    BY <1>6, <2>0, Resizing DEF SelfLock
  <2>2. size' \in Nat /\ size' > Fd(c)
    BY <2>1, ResizedGrows
  <2>3. table' = Kept(size')
    BY <1>6 DEF SelfLock
  <2>4. /\ table' \in [Fds -> Numbers \cup {0}]
        /\ \A d \in Fds : table'[d] = IF d < size' THEN table[d] ELSE 0
    BY <2>1, <2>3 DEF Kept
  <2>5. TableSound'
    BY <1>6, <2>1, <2>2, <2>4 DEF SelfLock
  <2>6. /\ pc' \in [Callers -> {"free", "lookup", "retain", "grow", "use", "erase", "stuck"}]
        /\ \A e \in Callers : e # c => pc'[e] = pc[e]
        /\ pc'[c] \in {"free", "stuck"} /\ pc[c] # "free"
    BY <1>6 DEF SelfLock
  <2> QED
    BY <1>6, <2>0, <2>1, <2>2, <2>4, <2>5, <2>6 DEF SelfLock
<1>7. ASSUME NEW c \in Callers, Opened(c) PROVE Rest'
  BY <1>7 DEF Opened
<1>8. ASSUME NEW c \in Callers, SetTimeout(c) PROVE Rest'
  BY <1>8 DEF SetTimeout
<1>9. ASSUME NEW c \in Callers, Ioctl(c) PROVE Rest'
  <2>1. quick' \subseteq Fds
    BY <1>9 DEF Ioctl, Quick
  <2> QED
    BY <1>9, <2>1 DEF Ioctl
<1>10. ASSUME NEW c \in Callers, SetFlags(c) PROVE Rest'
  <2>1. quick' \subseteq Fds
    BY <1>10 DEF SetFlags, Quick
  <2> QED
    BY <1>10, <2>1 DEF SetFlags
<1>11. ASSUME NEW c \in Callers, GetFlags(c) PROVE Rest'
  BY <1>11 DEF GetFlags
<1>12. ASSUME NEW c \in Callers, Reinit(c) PROVE Rest'
  BY <1>12 DEF Reinit
<1>13. ASSUME NEW c \in Callers, CloseNothing(c) PROVE Rest'
  BY <1>13 DEF CloseNothing
<1>14. ASSUME NEW c \in Callers, Close(c) PROVE Rest'
  BY <1>14 DEF Close
<1>15. ASSUME NEW c \in Callers, Erase(c) PROVE Rest'
  BY <1>15 DEF Erase
<1>16. ASSUME NEW c \in Callers, UseDangling(c) PROVE Rest'
  <2>1. quick' = quick \/ quick' = Quick(c)
    BY <1>16 DEF UseDangling
  <2>2. quick' \subseteq Fds
    <3>1. pc[c] = "use"
      BY <1>16 DEF UseDangling
    <3>2. Fd(c) \in Fds /\ quick \subseteq Fds
      BY <3>1
    <3>3. Quick(c) \subseteq Fds
      <4> HIDE DEF Rest, Shapes, InCall, Fd
      <4> QED
        BY <3>2 DEF Quick
    <3> QED
      BY <2>1, <3>2, <3>3
  <2>3. /\ pc[c] = "use" /\ UNCHANGED <<kernel, tableVars, seen, calls>>
        /\ \/ pc' = [pc EXCEPT ![c] = "erase"] /\ UNCHANGED <<op, got>>
           \/ /\ pc' = [pc EXCEPT ![c] = "free"]
              /\ op' = [op EXCEPT ![c] = NoCall] /\ got' = [got EXCEPT ![c] = 0]
    BY <1>16 DEF UseDangling
  <2> QED
    BY <2>2, <2>3
<1>17. ASSUME NEW d \in Fds, Duplicate(d) PROVE Rest'
  BY <1>17 DEF Duplicate
<1>18. ASSUME NEW d \in Fds, RawClose(d) PROVE Rest'
  BY <1>18 DEF RawClose
<1>19. CASE UNCHANGED vars
  BY <1>19 DEF vars
<1> HIDE DEF Rest, Shapes, InCall, TableSound, Goto, Fd, Finish, Using, kernelVars, tableVars, callVars
<1> QED
  BY <1>1, <1>2, <1>3, <1>4, <1>5, <1>6, <1>7, <1>8, <1>9, <1>10,
     <1>11, <1>12, <1>13, <1>14, <1>15, <1>16, <1>17, <1>18, <1>19
     DEF Next, Get, Use

LEMMA StepInv == Inv /\ [Next]_vars => Inv'
  BY StepFlags, StepRest DEF Inv, Rest

LEMMA Invariance == Spec => []Inv
  BY InitInv, StepInv, PTL DEF Spec

(* The variables keep their types.                                         *)
THEOREM TypeCorrect == Spec => []TypeOK
<1>1. Inv => TypeOK
  BY Parts DEF Inv
<1> QED
  BY <1>1, Invariance, PTL

(* Every context is stored inside the table and under one descriptor.      *)
THEOREM SoundTable == Spec => []TableSound
<1>1. Inv => TableSound
  BY DEF Inv
<1> QED
  BY <1>1, Invariance, PTL

---------------------------------------------------------------------------
(* A resize by a thread that saw a table at least as large as it is now    *)
(* keeps every entry and adds one beyond them.                             *)
LEMMA ResizeKeeps ==
  ASSUME Inv, NEW c \in Callers, pc[c] = "grow", seen[c] >= size, size' = Resized(Fd(c)),
         NEW d \in Fds, table[d] # 0
  PROVE  Kept(size')[d] = table[d] /\ d # Fd(c)
<1>1. Fd(c) \in Nat /\ Fd(c) >= 2 /\ Fd(c) >= seen[c] /\ seen[c] \in Nat /\ size \in Nat /\ d \in Nat
  BY SizesAssumption, Resizing DEF Inv, Shapes
<1>2. d < size /\ size' > Fd(c) /\ size' \in Nat
  BY <1>1, ResizedGrows DEF Inv, TableSound
<1> QED
  BY <1>1, <1>2 DEF Kept

Replaced(d) == table[d] # 0 /\ table'[d] # table[d] =>
                 \/ \E c \in Callers : pc[c] = "erase" /\ Fd(c) = d
                 \/ \E c \in Callers : pc[c] = "grow" /\ pc'[c] # "grow" /\ seen[c] < size

(* An entry is lost only to a close() of its descriptor or to a thread     *)
(* that resizes after another one did.                                     *)
THEOREM EntriesAreKept == Spec => EntriesSurvive
<1>1. ASSUME Inv, [Next]_vars, NEW d \in Fds PROVE Replaced(d)
  <2>0. Shapes
    BY <1>1 DEF Inv
  <2>1. ASSUME NEW c \in Callers, Grow(c) \/ SelfLock(c) PROVE Replaced(d)
    <3>1. pc[c] = "grow" /\ pc'[c] # "grow" /\ size' = Resized(Fd(c)) /\ seen[c] \in Nat /\ size \in Nat
      BY <2>0, <2>1 DEF Grow, SelfLock, Goto, Shapes
    <3>2. table' = [Kept(size') EXCEPT ![Fd(c)] = made'] \/ table' = Kept(size')
      BY <2>1 DEF Grow, SelfLock
    <3>3. ASSUME seen[c] >= size, table[d] # 0 PROVE table'[d] = table[d]
      BY <1>1, <3>1, <3>2, <3>3, ResizeKeeps DEF Kept
    <3> QED
      BY <3>1, <3>3 DEF Replaced
  <2>2. ASSUME NEW c \in Callers, Erase(c) PROVE Replaced(d)
    BY <2>0, <2>2 DEF Erase, Replaced, Shapes
  <2>3. CASE UNCHANGED table
    BY <2>3 DEF Replaced
  <2>4. (\E c \in Callers : Grow(c) \/ SelfLock(c) \/ Erase(c)) \/ UNCHANGED table
    BY <1>1 DEF Next, Get, Use, Begin, Beyond, Look, Retain, Opened, SetTimeout, Ioctl, SetFlags, GetFlags,
                Reinit, CloseNothing, Close, UseDangling, Duplicate, RawClose, Finish, tableVars, vars
  <2> QED
    BY <2>1, <2>2, <2>3, <2>4
<1>2. Inv /\ [Next]_vars => [\A d \in Fds : Replaced(d)]_vars
  BY <1>1
<1>3. EntriesSurvive <=> [][\A d \in Fds : Replaced(d)]_vars
  BY DEF EntriesSurvive, Replaced
<1> QED
  BY <1>2, <1>3, Invariance, PTL DEF Spec
=============================================================================
