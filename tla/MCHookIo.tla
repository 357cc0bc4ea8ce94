------------------------------ MODULE MCHookIo ------------------------------
(* HookIo with the contexts that tell its paths apart: a socket with a     *)
(* timeout for reads and none for writes, a descriptor that is no socket,  *)
(* and one whose m_isClose is set.                                         *)
EXTENDS HookIo

Socket == [known |-> TRUE, closed |-> FALSE, socket |-> TRUE,
           userNonblock |-> FALSE, timed |-> {"READ"}]
MCContexts == {Socket, [Socket EXCEPT !.socket = FALSE], [Socket EXCEPT !.closed = TRUE]}
=============================================================================
