-------------------------- MODULE LifecycleProofs --------------------------
(***************************************************************************)
(* The session engine implements the safety part of SessionLifecycle     *)
(* under the refinement mapping of ClientHandlerLifecycle, for every value *)
(* of the constants.                                                       *)
(*                                                                         *)
(* The mapping reads the registry as the abstract `registered`, so each  *)
(* step must keep the registry equal to the connections whose control   *)
(* point is RUNNING: that is RegMatch, inductive on its own.  The        *)
(* abstract Establish step takes an address no running session holds;   *)
(* add_session's address is ip[c], which IpInv (ClientHandlerProofs)     *)
(* shows is held (LeaseHeld) and held by no one else (IpLeasedOnce).     *)
(***************************************************************************)
EXTENDS ClientHandlerLifecycle, ClientHandlerProofs

\* The control points the mapping calls RUNNING.
Running == Loop \cup {"unregister"}

\* The registry holds exactly the connections between add_session and
\* remove_session.
RegMatch == \A c \in Conns : c \in registry <=> pc[c] \in Running

RefInv == IpInv /\ RegMatch

\* The cleanup steps after remove_session, and the end of the handler.
Terminal == {"release", "removekey", "failed", "closed"}

absPhase == [d \in Conns |-> AbsPhase(d)]
absLease == [d \in Conns |-> AbsLease(d)]

LEMMA InitRefInv == Init => RefInv
BY InitIpInv DEF Init, RefInv, RegMatch, Running, Loop

\* A move of c's main task that neither enters nor leaves RUNNING and
\* leaves the registry alone keeps RegMatch.
LEMMA MoveKeepsRegMatch ==
    ASSUME RegMatch, NEW c \in Conns, NEW q, pc' = [pc EXCEPT ![c] = q],
           registry' = registry, pc[c] \in Running <=> q \in Running
    PROVE  RegMatch'
BY DEF RegMatch

LEMMA NextRegMatch == RefInv /\ [Next]_vars => RegMatch'
<1> SUFFICES ASSUME RefInv, [Next]_vars PROVE RegMatch'
  OBVIOUS
<1> USE DEF RefInv, IpInv, TypeOK
<1>1. ASSUME NEW c \in Conns,
             \/ RecvAuth(c) \/ RecvChallengeResponse(c) \/ HandshakeRejected(c)
             \/ AllocateIp(c) \/ StoreSessionKey(c) \/ EncryptSessionKey(c)
             \/ SendIpAssign(c) \/ ReleaseIp(c) \/ RemoveKey(c)
      PROVE  RegMatch'
  <2>1. pc[c] \notin Running /\ registry' = registry
        /\ \E q \in Phases \ Running : pc' = [pc EXCEPT ![c] = q]
    BY <1>1 DEF RecvAuth, RecvChallengeResponse, HandshakeRejected, AllocateIp,
                StoreSessionKey, EncryptSessionKey, SendIpAssign, ReleaseIp,
                RemoveKey, Goto, Running, Loop, Phases, Handshake, Establish, Cleanup
  <2>2. QED
    BY <2>1, MoveKeepsRegMatch
<1>2. ASSUME NEW c \in Conns, RegisterSession(c) PROVE RegMatch'
  <2>1. pc[c] = "register" /\ c \notin registry
    BY <1>2 DEF RegisterSession, RegMatch, Running, Loop
  <2>2. CASE registry' = registry \cup {c} /\ Goto(c, "check")
    BY <2>1, <2>2 DEF Goto, RegMatch, Running, Loop
  <2>3. CASE Goto(c, "failed") /\ UNCHANGED registry
    BY <2>1, <2>3 DEF Goto, RegMatch, Running, Loop
  <2>4. QED
    BY <1>2, <2>2, <2>3 DEF RegisterSession
<1>3. ASSUME NEW c \in Conns,
             \/ CheckServerState(c) \/ RecvClosed(c) \/ RecvData(c)
             \/ RecvControl(c) \/ RecvDisconnect(c)
      PROVE  RegMatch'
  <2>1. pc[c] \in Running /\ registry' = registry
        /\ \E q \in Running : pc' = [pc EXCEPT ![c] = q]
    BY <1>3 DEF CheckServerState, RecvClosed, RecvData, RecvControl, RecvDisconnect,
                FrameArrives, ExitLoop, Goto, Running, Loop
  <2>2. QED
    BY <2>1, MoveKeepsRegMatch
<1>4. ASSUME NEW c \in Conns, RemoveSession(c) PROVE RegMatch'
  BY <1>4 DEF RemoveSession, Goto, RegMatch, Running, Loop
<1>5. ASSUME NEW c \in Conns, Tasks(c) \/ TransportFails(c) PROVE RegMatch'
  BY <1>5 DEF Tasks, HeartbeatTick, RotationTick, RotationSend, RotationStore,
              RotationCancelled, TransportFails, RegMatch, engineVars
<1>6. CASE ServerStops \/ UNCHANGED vars
  BY <1>6 DEF ServerStops, RegMatch, vars, engineVars
<1>7. QED
  BY <1>1, <1>2, <1>3, <1>4, <1>5, <1>6 DEF Next, EngineStep, PeerFrame

LEMMA NextRefInv == RefInv /\ [Next]_vars => RefInv'
BY NextIpInv, NextRegMatch DEF RefInv

\* Spec 8.1 for every number of connections: a session is in the registry
\* exactly from add_session to remove_session, and holds its address all
\* that time.
THEOREM SessionRegisteredHolds == Spec => []SessionRegistered
<1>1. RefInv => SessionRegistered
  BY DEF RefInv, RegMatch, Running, IpInv, LeaseHeld, SessionRegistered, HoldsIp,
         Loop, Establish
<1>2. QED
  BY InitRefInv, NextRefInv, <1>1, PTL DEF Spec


-----------------------------------------------------------------------------
(* The refinement mapping                                                  *)

\* How a move of c's main task shows in the abstract phase.
LEMMA PhaseMap ==
    ASSUME pc \in [Conns -> Phases], NEW c \in Conns, NEW q, pc' = [pc EXCEPT ![c] = q]
    PROVE  /\ absPhase' = [absPhase EXCEPT ![c] = StateOf(q)]
           /\ absPhase[c] = StateOf(pc[c])
BY DEF absPhase, AbsPhase

\* How a move of c's main task that leaves the other connections'
\* addresses alone shows in the abstract leases.
LEMMA LeaseMap ==
    ASSUME pc \in [Conns -> Phases], NEW c \in Conns, NEW q, pc' = [pc EXCEPT ![c] = q],
           \A d \in Conns \ {c} : ip'[d] = ip[d]
    PROVE  /\ absLease' = [absLease EXCEPT ![c] = IF StateOf(q) = "RUNNING" THEN ip'[c] ELSE NoIp]
           /\ absLease[c] = IF StateOf(pc[c]) = "RUNNING" THEN ip[c] ELSE NoIp
BY DEF absLease, AbsLease, AbsPhase

LEMMA Stutter ==
    ASSUME absPhase' = absPhase, absLease' = absLease, registry' = registry
    PROVE  [SL!Next]_SL!avars
BY DEF SL!avars, absPhase, absLease

\* A move within one engine state that keeps the registry, and the
\* address of c while it runs, is an abstract stuttering step.
LEMMA SameState ==
    ASSUME pc \in [Conns -> Phases], NEW c \in Conns, NEW q, pc' = [pc EXCEPT ![c] = q],
           StateOf(q) = StateOf(pc[c]),
           \A d \in Conns \ {c} : ip'[d] = ip[d],
           StateOf(q) = "RUNNING" => ip'[c] = ip[c],
           registry' = registry
    PROVE  [SL!Next]_SL!avars
<1>1. absPhase' = absPhase
  <2>1. absPhase' = [absPhase EXCEPT ![c] = StateOf(q)] /\ absPhase[c] = StateOf(q)
    BY PhaseMap
  <2>2. QED
    BY <2>1 DEF absPhase
<1>2. absLease' = absLease
  <2>1. /\ absLease' = [absLease EXCEPT ![c] = IF StateOf(q) = "RUNNING" THEN ip'[c] ELSE NoIp]
        /\ absLease[c] = IF StateOf(pc[c]) = "RUNNING" THEN ip[c] ELSE NoIp
    BY LeaseMap
  <2>2. absLease[c] = IF StateOf(q) = "RUNNING" THEN ip'[c] ELSE NoIp
    BY <2>1
  <2>3. QED
    BY <2>1, <2>2 DEF absLease
<1>3. QED
  BY <1>1, <1>2, Stutter

\* A step that moves no main task, touches no address and leaves the
\* registry alone.
LEMMA NoMove ==
    ASSUME pc' = pc, ip' = ip, registry' = registry
    PROVE  [SL!Next]_SL!avars
BY Stutter DEF absPhase, absLease, AbsPhase, AbsLease


\* A move of c between engine states that keeps the registry and the other
\* connections' addresses, and gives c no address while it is not RUNNING:
\* the abstract phase of c changes and no abstract lease does.
LEMMA PlainMove ==
    ASSUME pc \in [Conns -> Phases], NEW c \in Conns, NEW q, pc' = [pc EXCEPT ![c] = q],
           StateOf(q) # "RUNNING", StateOf(pc[c]) # "RUNNING",
           \A d \in Conns \ {c} : ip'[d] = ip[d]
    PROVE  /\ absPhase' = [absPhase EXCEPT ![c] = StateOf(q)]
           /\ absPhase[c] = StateOf(pc[c])
           /\ absLease' = absLease
<1>1. absLease' = [absLease EXCEPT ![c] = NoIp] /\ absLease[c] = NoIp
  BY LeaseMap
<1>2. QED
  BY <1>1, PhaseMap DEF absLease

\* Every step of the engine is a step of SessionLifecycle or leaves the
\* mapped state unchanged.
LEMMA NextRefines == RefInv /\ [Next]_vars => [SL!Next]_SL!avars
<1> SUFFICES ASSUME RefInv, [Next]_vars PROVE [SL!Next]_SL!avars
  OBVIOUS
<1>0. pc \in [Conns -> Phases] /\ ip \in [Conns -> Ips \cup {NoIp}]
  BY DEF RefInv, IpInv, TypeOK
<1>1. ASSUME NEW c \in Conns, RecvAuth(c) PROVE [SL!Next]_SL!avars
  <2>1. pc[c] = "auth" /\ pc' = [pc EXCEPT ![c] = "response"] /\ ip' = ip /\ registry' = registry
    BY <1>1 DEF RecvAuth, Goto
  <2>2. SL!ReceiveAuth(c)
    BY <1>0, <2>1, PlainMove DEF SL!ReceiveAuth, SL!Move, StateOf, Establish, Loop, absPhase, absLease
  <2>3. QED
    BY <2>2 DEF SL!Next, SL!Progress
<1>2. ASSUME NEW c \in Conns, RecvChallengeResponse(c) PROVE [SL!Next]_SL!avars
  <2>1. pc[c] = "response" /\ pc' = [pc EXCEPT ![c] = "alloc"] /\ ip' = ip /\ registry' = registry
    BY <1>2 DEF RecvChallengeResponse, Goto
  <2>2. SL!Authenticate(c)
    BY <1>0, <2>1, PlainMove DEF SL!Authenticate, SL!Move, StateOf, Establish, Loop, absPhase, absLease
  <2>3. QED
    BY <2>2 DEF SL!Next, SL!Progress
<1>3. ASSUME NEW c \in Conns, HandshakeRejected(c) PROVE [SL!Next]_SL!avars
  <2>1. pc[c] \in Handshake /\ pc' = [pc EXCEPT ![c] = "failed"] /\ ip' = ip /\ registry' = registry
    BY <1>3 DEF HandshakeRejected, Goto
  <2>2. SL!Reject(c)
    BY <1>0, <2>1, PlainMove DEF SL!Reject, StateOf, Handshake, Establish, Loop, absPhase, absLease
  <2>3. QED
    BY <2>2 DEF SL!Next, SL!Progress
\* The failure paths of establishment are abstract Abort steps.
<1>4. ASSUME NEW c \in Conns, pc[c] \in Establish, pc' = [pc EXCEPT ![c] = "failed"],
             \A d \in Conns \ {c} : ip'[d] = ip[d], registry' = registry
      PROVE  [SL!Next]_SL!avars
  <2>1. StateOf("failed") = "TERMINATED" /\ StateOf(pc[c]) = "ESTABLISHING"
    BY <1>4 DEF StateOf, Establish, Loop
  <2>2. /\ absPhase' = [absPhase EXCEPT ![c] = "TERMINATED"]
        /\ absPhase[c] = "ESTABLISHING"
        /\ absLease' = absLease
    BY <1>0, <1>4, <2>1, PlainMove
  <2>3. SL!Abort(c)
    BY <1>4, <2>2 DEF SL!Abort, SL!Move, absPhase, absLease
  <2>4. QED
    BY <2>3 DEF SL!Next, SL!Progress
\* Moves between control points of the same engine state.
<1>5. ASSUME NEW c \in Conns, NEW p \in Phases, NEW q \in Phases, pc[c] = p,
             pc' = [pc EXCEPT ![c] = q], registry' = registry,
             \A d \in Conns \ {c} : ip'[d] = ip[d],
             \/ p \in Establish /\ q \in Establish
             \/ p \in Running /\ q \in Running /\ ip' = ip
             \/ p \in Terminal /\ q \in Terminal
      PROVE  [SL!Next]_SL!avars
  <2>1. StateOf(q) = StateOf(pc[c]) /\ (StateOf(q) = "RUNNING" => ip'[c] = ip[c])
    <3>1. CASE p \in Establish /\ q \in Establish
      BY <1>5, <3>1 DEF StateOf, Establish, Loop
    <3>2. CASE p \in Running /\ q \in Running /\ ip' = ip
      BY <1>5, <3>2 DEF StateOf, Establish, Running, Loop
    <3>3. CASE p \in Terminal /\ q \in Terminal
      BY <1>5, <3>3 DEF StateOf, Establish, Terminal, Loop
    <3>4. QED
      BY <1>5, <3>1, <3>2, <3>3
  <2>2. QED
    BY <1>0, <1>5, <2>1, SameState
<1>6. ASSUME NEW c \in Conns, AllocateIp(c) PROVE [SL!Next]_SL!avars
  <2>1. CASE \E i \in free : ip' = [ip EXCEPT ![c] = i] /\ Goto(c, "storekey")
    BY <1>0, <1>6, <2>1, <1>5 DEF AllocateIp, Goto, Establish, Phases, Handshake, Loop, Cleanup
  <2>2. CASE Goto(c, "failed") /\ UNCHANGED <<ip, free>>
    BY <1>6, <2>2, <1>4 DEF AllocateIp, Goto, Establish
  <2>3. QED
    BY <1>6, <2>1, <2>2 DEF AllocateIp
<1>7. ASSUME NEW c \in Conns, StoreSessionKey(c) PROVE [SL!Next]_SL!avars
  BY <1>7, <1>5 DEF StoreSessionKey, Goto, Establish, Phases, Handshake, Loop, Cleanup
<1>8. ASSUME NEW c \in Conns, EncryptSessionKey(c) PROVE [SL!Next]_SL!avars
  <2>1. CASE Goto(c, "assign") /\ UNCHANGED <<ip, free>>
    BY <1>8, <2>1, <1>5 DEF EncryptSessionKey, Goto, Establish, Phases, Handshake, Loop, Cleanup
  <2>2. CASE ReleaseIpOf(c) /\ Goto(c, "failed")
    BY <1>0, <1>8, <2>2, <1>4 DEF EncryptSessionKey, Goto, Establish, ReleaseIpOf
  <2>3. QED
    BY <1>8, <2>1, <2>2 DEF EncryptSessionKey
<1>9. ASSUME NEW c \in Conns, SendIpAssign(c) PROVE [SL!Next]_SL!avars
  <2>1. CASE Goto(c, "register") /\ UNCHANGED <<ip, free>>
    BY <1>9, <2>1, <1>5 DEF SendIpAssign, Goto, Establish, Phases, Handshake, Loop, Cleanup
  <2>2. CASE ReleaseIpOf(c) /\ Goto(c, "failed")
    BY <1>0, <1>9, <2>2, <1>4 DEF SendIpAssign, Goto, Establish, ReleaseIpOf
  <2>3. QED
    BY <1>9, <2>1, <2>2 DEF SendIpAssign
<1>10. ASSUME NEW c \in Conns, RegisterSession(c) PROVE [SL!Next]_SL!avars
  <2>1. CASE registry' = registry \cup {c} /\ Goto(c, "check")
    <3>1. pc[c] = "register" /\ pc' = [pc EXCEPT ![c] = "check"] /\ ip' = ip
      BY <1>10, <2>1 DEF RegisterSession, Goto
    <3>2. ip[c] \in Ips
      BY <3>1 DEF RefInv, IpInv, TypeOK, LeaseHeld, HoldsIp, Establish
    <3>3. \A d \in Conns : absLease[d] # ip[c]
      <4> SUFFICES ASSUME NEW d \in Conns PROVE absLease[d] # ip[c]
        OBVIOUS
      <4>1. CASE d = c
        <5>1. StateOf("register") = "ESTABLISHING"
          BY DEF StateOf, Establish, Loop
        <5>2. absLease[d] = NoIp
          BY <3>1, <4>1, <5>1 DEF absLease, AbsLease, AbsPhase
        <5>3. QED
          BY <3>2, <5>2, ConstAssumption
      <4>2. CASE d # c
        <5>1. absLease[d] \in {NoIp, ip[d]}
          BY DEF absLease, AbsLease
        <5>2. ip[d] # ip[c]
          BY <3>2, <4>2, ConstAssumption DEF RefInv, IpInv, IpLeasedOnce
        <5>3. QED
          BY <3>2, <5>1, <5>2, ConstAssumption
      <4>3. QED
        BY <4>1, <4>2
    <3>4. absPhase' = [absPhase EXCEPT ![c] = "RUNNING"] /\ absPhase[c] = "ESTABLISHING"
      <4>1. StateOf("check") = "RUNNING" /\ StateOf("register") = "ESTABLISHING"
        BY DEF StateOf, Establish, Loop
      <4>2. absPhase' = [absPhase EXCEPT ![c] = StateOf("check")] /\ absPhase[c] = StateOf(pc[c])
        BY <1>0, <3>1, PhaseMap
      <4>3. QED
        BY <3>1, <4>1, <4>2
    <3>5. absLease' = [absLease EXCEPT ![c] = ip[c]]
      <4>1. StateOf("check") = "RUNNING"
        BY DEF StateOf, Establish, Loop
      <4>2. \A d \in Conns \ {c} : ip'[d] = ip[d]
        BY <3>1
      <4>3. absLease' = [absLease EXCEPT ![c] = ip'[c]]
        BY <1>0, <3>1, <4>1, <4>2, LeaseMap
      <4>4. QED
        BY <3>1, <4>3
    <3>6. SL!Establish(c)
      <4>1. ip[c] \in Ips \ SL!Leased
        BY <3>2, <3>3 DEF SL!Leased, absLease
      <4>2. SL!Move(c, "ESTABLISHING", "RUNNING")
        BY <3>4 DEF SL!Move, absPhase
      <4>3. \E i \in Ips \ SL!Leased : absLease' = [absLease EXCEPT ![c] = i]
        BY <3>5, <4>1
      <4>4. QED
        BY <2>1, <4>2, <4>3 DEF SL!Establish, absLease
    <3>7. QED
      BY <3>6 DEF SL!Next, SL!Progress
  <2>2. CASE Goto(c, "failed") /\ UNCHANGED registry
    BY <1>10, <2>2, <1>4 DEF RegisterSession, Goto, Establish
  <2>3. QED
    BY <1>10, <2>1, <2>2 DEF RegisterSession
<1>11. ASSUME NEW c \in Conns,
              \/ CheckServerState(c) \/ RecvClosed(c) \/ RecvData(c)
              \/ RecvControl(c) \/ RecvDisconnect(c)
       PROVE  [SL!Next]_SL!avars
  <2>1. pc[c] \in Running /\ registry' = registry /\ ip' = ip
        /\ \E q \in Running : pc' = [pc EXCEPT ![c] = q]
    BY <1>11 DEF CheckServerState, RecvClosed, RecvData, RecvControl, RecvDisconnect,
                 FrameArrives, ExitLoop, Goto, Running, Loop
  <2>2. PICK q \in Running : pc' = [pc EXCEPT ![c] = q]
    BY <2>1
  <2>3. pc[c] \in Phases /\ q \in Phases /\ \A d \in Conns \ {c} : ip'[d] = ip[d]
    BY <1>0, <2>1 DEF Running, Phases, Loop, Cleanup
  <2>4. QED
    BY <2>1, <2>2, <2>3, <1>5
<1>12. ASSUME NEW c \in Conns, RemoveSession(c) PROVE [SL!Next]_SL!avars
  <2>1. pc[c] = "unregister" /\ pc' = [pc EXCEPT ![c] = "release"] /\ ip' = ip
        /\ registry' = registry \ {c}
    BY <1>12 DEF RemoveSession, Goto
  <2>2. absPhase' = [absPhase EXCEPT ![c] = "TERMINATED"] /\ absPhase[c] = "RUNNING"
    <3>1. StateOf("release") = "TERMINATED" /\ StateOf("unregister") = "RUNNING"
      BY DEF StateOf, Establish, Loop
    <3>2. absPhase' = [absPhase EXCEPT ![c] = StateOf("release")] /\ absPhase[c] = StateOf(pc[c])
      BY <1>0, <2>1, PhaseMap
    <3>3. QED
      BY <2>1, <3>1, <3>2
  <2>3. absLease' = [absLease EXCEPT ![c] = NoIp]
    <3>1. StateOf("release") = "TERMINATED"
      BY DEF StateOf, Establish, Loop
    <3>2. \A d \in Conns \ {c} : ip'[d] = ip[d]
      BY <2>1
    <3>3. QED
      BY <1>0, <2>1, <3>1, <3>2, LeaseMap
  <2>4. SL!Terminate(c)
    BY <2>1, <2>2, <2>3 DEF SL!Terminate, SL!Move, absPhase, absLease
  <2>5. QED
    BY <2>4 DEF SL!Next
<1>13. ASSUME NEW c \in Conns, ReleaseIp(c) \/ RemoveKey(c) PROVE [SL!Next]_SL!avars
  <2>1. CASE ReleaseIp(c)
    <3>1. pc[c] = "release" /\ pc' = [pc EXCEPT ![c] = "removekey"] /\ registry' = registry
          /\ \A d \in Conns \ {c} : ip'[d] = ip[d]
      BY <1>0, <2>1 DEF ReleaseIp, ReleaseIpOf, Goto
    <3>2. QED
      BY <3>1, <1>5 DEF Terminal, Phases, Cleanup
  <2>2. CASE RemoveKey(c)
    <3>1. pc[c] = "removekey" /\ pc' = [pc EXCEPT ![c] = "closed"] /\ registry' = registry
          /\ ip' = ip
      BY <2>2 DEF RemoveKey, Goto
    <3>2. QED
      BY <3>1, <1>5 DEF Terminal, Phases, Cleanup
  <2>3. QED
    BY <1>13, <2>1, <2>2
<1>14. ASSUME NEW c \in Conns, Tasks(c) \/ TransportFails(c) PROVE [SL!Next]_SL!avars
  BY <1>14, NoMove DEF Tasks, HeartbeatTick, RotationTick, RotationSend, RotationStore,
                      RotationCancelled, TransportFails, engineVars
<1>15. CASE ServerStops \/ UNCHANGED vars
  BY <1>15, NoMove DEF ServerStops, vars, engineVars
<1>16. QED
  BY <1>1, <1>2, <1>3, <1>6, <1>7, <1>8, <1>9, <1>10, <1>11, <1>12, <1>13,
     <1>14, <1>15 DEF Next, EngineStep, PeerFrame

\* The engine of client.rs implements the lifecycle of spec 4.F for every
\* number of connections and addresses: its states follow the state
\* machine, the registry holds exactly the running sessions, and a running
\* session holds an address no other running session holds.
THEOREM LifecycleSafety == Spec => SL!Init /\ [][SL!Next]_SL!avars
<1>1. Init => SL!Init
  <2>1. StateOf("auth") = "AWAIT_AUTH"
    BY DEF StateOf, Establish, Loop
  <2>2. QED
    BY <2>1 DEF Init, SL!Init, AbsPhase, AbsLease
<1>2. QED
  BY <1>1, InitRefInv, NextRefInv, NextRefines, PTL DEF Spec

=============================================================================
