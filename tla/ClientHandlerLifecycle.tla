----------------------- MODULE ClientHandlerLifecycle -----------------------
(***************************************************************************)
(* The refinement mapping from the session engine of client.rs to the     *)
(* abstract lifecycle of SessionLifecycle.  A connection is RUNNING from  *)
(* add_session until remove_session; its lease is the IP it holds while   *)
(* RUNNING.  Every other step of handle_client and of the spawned tasks   *)
(* (key store, wrap, IpAssign, the frames of the loop, release_ip,        *)
(* remove_key) is a stuttering step of the abstract specification.       *)
(***************************************************************************)
EXTENDS ClientHandler

\* The engine state a control point of handle_client belongs to.
StateOf(p) ==
    CASE p = "auth"                     -> "AWAIT_AUTH"
      [] p = "response"                 -> "AWAIT_RESPONSE"
      [] p \in Establish                -> "ESTABLISHING"
      [] p \in Loop \cup {"unregister"} -> "RUNNING"
      [] OTHER                          -> "TERMINATED"

AbsPhase(c) == StateOf(pc[c])

\* The address a running session holds.
AbsLease(c) == IF AbsPhase(c) = "RUNNING" THEN ip[c] ELSE NoIp

SL == INSTANCE SessionLifecycle
        WITH phase      <- [c \in Conns |-> AbsPhase(c)],
             lease      <- [c \in Conns |-> AbsLease(c)],
             registered <- registry

\* The engine implements the lifecycle of spec 4.F: its phases follow the
\* state machine in order, registration (add_session, remove_session)
\* coincides with RUNNING, leases taken by allocate_ip are exclusive among
\* running sessions, and handshake and establishment always finish.
LifecycleRefined == SL!Spec

=============================================================================
