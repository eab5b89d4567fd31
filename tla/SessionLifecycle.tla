-------------------------- MODULE SessionLifecycle --------------------------
(***************************************************************************)
(* What the session engine promises about one connection's life, for a    *)
(* set Conns of connections served at once: it moves through the states   *)
(* AWAIT_AUTH, AWAIT_RESPONSE, ESTABLISHING, RUNNING and TERMINATED in     *)
(* that order, possibly skipping ahead to TERMINATED; a session is in the *)
(* registry exactly while it is RUNNING; a RUNNING session holds an       *)
(* address no other RUNNING session holds, and gives it up when it       *)
(* terminates.  Each step of the engine is one atomic step here.          *)
(***************************************************************************)
CONSTANTS Conns, Ips, NoIp

VARIABLES
    phase,       \* phase[c]: the engine state of connection c
    lease,       \* lease[c]: the address a RUNNING session holds, else NoIp
    registered   \* the connections whose session is in the registry

avars == <<phase, lease, registered>>

States == {"AWAIT_AUTH", "AWAIT_RESPONSE", "ESTABLISHING", "RUNNING", "TERMINATED"}

\* Addresses held by running sessions.
Leased == {lease[c] : c \in Conns} \ {NoIp}

TypeOK ==
    /\ phase \in [Conns -> States]
    /\ lease \in [Conns -> Ips \cup {NoIp}]
    /\ registered \subseteq Conns

Init ==
    /\ phase = [c \in Conns |-> "AWAIT_AUTH"]
    /\ lease = [c \in Conns |-> NoIp]
    /\ registered = {}

Move(c, from, to) ==
    /\ phase[c] = from
    /\ phase' = [phase EXCEPT ![c] = to]

\* An Auth frame arrives and a challenge is sent.
ReceiveAuth(c) ==
    /\ Move(c, "AWAIT_AUTH", "AWAIT_RESPONSE")
    /\ UNCHANGED <<lease, registered>>

\* The response verifies and the ACL admits the client.
Authenticate(c) ==
    /\ Move(c, "AWAIT_RESPONSE", "ESTABLISHING")
    /\ UNCHANGED <<lease, registered>>

\* Timeout, close, bad frame, bad signature or ACL denial.
Reject(c) ==
    /\ phase[c] \in {"AWAIT_AUTH", "AWAIT_RESPONSE"}
    /\ phase' = [phase EXCEPT ![c] = "TERMINATED"]
    /\ UNCHANGED <<lease, registered>>

\* IP assigned and key installed: the session is registered and runs.
Establish(c) ==
    /\ Move(c, "ESTABLISHING", "RUNNING")
    /\ \E i \in Ips \ Leased :
          lease' = [lease EXCEPT ![c] = i]
    /\ registered' = registered \cup {c}

\* Allocation, crypto, send or construction failure.
Abort(c) ==
    /\ Move(c, "ESTABLISHING", "TERMINATED")
    /\ UNCHANGED <<lease, registered>>

\* Disconnect, stream close, fatal error or shutdown: deregister and give
\* the address back.
Terminate(c) ==
    /\ Move(c, "RUNNING", "TERMINATED")
    /\ lease' = [lease EXCEPT ![c] = NoIp]
    /\ registered' = registered \ {c}

\* The steps the engine takes without waiting on its peer: the handshake
\* reads carry deadlines and establishment makes no unbounded wait.
Progress(c) ==
    ReceiveAuth(c) \/ Authenticate(c) \/ Reject(c) \/ Establish(c) \/ Abort(c)

Next == \E c \in Conns : Progress(c) \/ Terminate(c)

Spec == Init /\ [][Next]_avars /\ \A c \in Conns : WF_avars(Progress(c))

=============================================================================
