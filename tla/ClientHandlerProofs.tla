------------------------ MODULE ClientHandlerProofs ------------------------
(***************************************************************************)
(* Proofs about ClientHandler, for every value of the constants.           *)
(*                                                                         *)
(* TypeOK is not inductive by itself: the failure paths and the cleanup of *)
(* handle_client hand ip[c] back to the pool, which keeps the pool inside  *)
(* Ips only if a connection at those points really holds an address.  The  *)
(* inductive invariant IpInv therefore adds LeaseHeld (a connection past   *)
(* allocate_ip and before release_ip holds an address) and IpLeasedOnce    *)
(* (no address is held twice or held and free), which release_ip needs    *)
(* to keep the other connections' leases out of the pool.                  *)
(***************************************************************************)
EXTENDS ClientHandler, TLAPS

\* Between allocate_ip and release_ip the connection holds an address.
LeaseHeld == \A c \in Conns : pc[c] \in HoldsIp => ip[c] # NoIp

IpInv == TypeOK /\ LeaseHeld /\ IpLeasedOnce

USE ConstAssumption

LEMMA InitIpInv == Init => IpInv
BY DEF Init, IpInv, TypeOK, LeaseHeld, IpLeasedOnce, Phases, Handshake,
       Establish, Loop, Cleanup, HoldsIp

\* Every key the model mints is a member of Keys.
LEMMA KeyTyping ==
    ASSUME NEW c \in Conns, NEW g \in 0..MaxRot
    PROVE  <<c, g>> \in Keys
BY DEF Keys

\* Leaving the loop aborts the two tasks into states of their type.
LEMMA AbortTyping ==
    ASSUME TypeOK, NEW c \in Conns, AbortTasks(c)
    PROVE  /\ hb' \in [Conns -> {"none", "ticking", "exited", "aborted"}]
           /\ rot' \in [Conns -> {"none", "idle", "sending", "storing", "exited", "aborted"}]
BY DEF AbortTasks, TypeOK

\* update_activity stays within the frame bound.
LEMMA ActivityTyping ==
    ASSUME TypeOK, NEW c \in Conns, FrameArrives(c)
    PROVE  activity' \in [Conns -> 0..MaxFrames]
BY DEF FrameArrives, TypeOK

\* release_ip by a connection that holds its lease, moving it to a control
\* point where it holds none, keeps the pool typed and the leases exclusive.
LEMMA ReleaseKeepsLeases ==
    ASSUME IpInv, NEW c \in Conns, pc[c] \in HoldsIp, ReleaseIpOf(c),
           NEW p \in Phases \ HoldsIp, pc' = [pc EXCEPT ![c] = p]
    PROVE  /\ free' \subseteq Ips
           /\ ip' \in [Conns -> Ips \cup {NoIp}]
           /\ pc' \in [Conns -> Phases]
           /\ LeaseHeld'
           /\ IpLeasedOnce'
BY DEF IpInv, TypeOK, LeaseHeld, IpLeasedOnce, ReleaseIpOf

\* Steps that change neither pc, ip nor free keep LeaseHeld and IpLeasedOnce.
LEMMA LeasesUntouched ==
    ASSUME IpInv, pc' = pc, ip' = ip, free' = free
    PROVE  LeaseHeld' /\ IpLeasedOnce'
BY DEF IpInv, LeaseHeld, IpLeasedOnce

\* Each action of Next keeps IpInv; one step per action, split on the
\* action's outcomes where it has several.
LEMMA NextIpInv == IpInv /\ [Next]_vars => IpInv'
<1> SUFFICES ASSUME IpInv, [Next]_vars PROVE IpInv'
  OBVIOUS
<1> USE DEF IpInv, TypeOK, LeaseHeld, IpLeasedOnce, Phases, Handshake,
            Establish, Loop, Cleanup, HoldsIp, Goto, engineVars, taskVars, envVars
<1>1. ASSUME NEW c \in Conns, RecvAuth(c) PROVE IpInv'
  BY <1>1 DEF RecvAuth
<1>2. ASSUME NEW c \in Conns, RecvChallengeResponse(c) PROVE IpInv'
  BY <1>2 DEF RecvChallengeResponse
<1>3. ASSUME NEW c \in Conns, HandshakeRejected(c) PROVE IpInv'
  BY <1>3 DEF HandshakeRejected
<1>4. ASSUME NEW c \in Conns, AllocateIp(c) PROVE IpInv'
  <2>1. CASE \E i \in free : /\ ip' = [ip EXCEPT ![c] = i]
                             /\ free' = free \ {i}
                             /\ Goto(c, "storekey")
    <3>1. PICK i \in free : /\ ip' = [ip EXCEPT ![c] = i]
                            /\ free' = free \ {i}
                            /\ Goto(c, "storekey")
      BY <2>1
    <3>2. TypeOK'
      BY <1>4, <3>1 DEF AllocateIp
    <3>3. LeaseHeld' /\ IpLeasedOnce'
      BY <3>1
    <3>4. QED
      BY <3>2, <3>3
  <2>2. CASE /\ free = {} \/ "alloc" \in Failures
             /\ Goto(c, "failed")
             /\ UNCHANGED <<ip, free>>
    BY <1>4, <2>2 DEF AllocateIp
  <2>3. QED
    BY <1>4, <2>1, <2>2 DEF AllocateIp
<1>5. ASSUME NEW c \in Conns, StoreSessionKey(c) PROVE IpInv'
  <2>1. SessionKey(c) \in Keys
    BY KeyTyping DEF SessionKey
  <2>2. QED
    BY <1>5, <2>1 DEF StoreSessionKey
<1>6. ASSUME NEW c \in Conns, EncryptSessionKey(c) PROVE IpInv'
  <2>1. CASE Goto(c, "assign") /\ UNCHANGED <<ip, free>>
    BY <1>6, <2>1 DEF EncryptSessionKey
  <2>2. CASE ReleaseIpOf(c) /\ Goto(c, "failed")
    BY <1>6, <2>2, ReleaseKeepsLeases DEF EncryptSessionKey
  <2>3. QED
    BY <1>6, <2>1, <2>2 DEF EncryptSessionKey
<1>7. ASSUME NEW c \in Conns, SendIpAssign(c) PROVE IpInv'
  <2>1. CASE transport[c] = "open" /\ peerKey' = [peerKey EXCEPT ![c] = SessionKey(c)]
             /\ Goto(c, "register") /\ UNCHANGED <<ip, free>>
    <3>1. SessionKey(c) \in Keys
      BY KeyTyping DEF SessionKey
    <3>2. QED
      BY <1>7, <2>1, <3>1 DEF SendIpAssign
  <2>2. CASE ReleaseIpOf(c) /\ Goto(c, "failed") /\ UNCHANGED peerKey
    BY <1>7, <2>2, ReleaseKeepsLeases DEF SendIpAssign
  <2>3. QED
    BY <1>7, <2>1, <2>2 DEF SendIpAssign
<1>8. ASSUME NEW c \in Conns, RegisterSession(c) PROVE IpInv'
  BY <1>8 DEF RegisterSession
<1>9. ASSUME NEW c \in Conns, CheckServerState(c) PROVE IpInv'
  BY <1>9, AbortTyping DEF CheckServerState, ExitLoop
<1>10. ASSUME NEW c \in Conns, RecvClosed(c) PROVE IpInv'
  BY <1>10, AbortTyping DEF RecvClosed, ExitLoop
<1>11. ASSUME NEW c \in Conns, RecvData(c) PROVE IpInv'
  <2>1. PICK n \in 0..MaxCounter :
             accepted' = IF ReplayRejects(LastCounter(c), n)
                         THEN accepted
                         ELSE [accepted EXCEPT ![c] = Append(@, n)]
    BY <1>11 DEF RecvData
  <2>2. accepted' \in [Conns -> Seq(0..MaxCounter)]
    BY <2>1
  <2>3. activity' \in [Conns -> 0..MaxFrames]
    BY <1>11, ActivityTyping DEF RecvData
  <2>4. QED
    BY <1>11, <2>2, <2>3 DEF RecvData, FrameArrives
<1>12. ASSUME NEW c \in Conns, RecvControl(c) PROVE IpInv'
  <2>1. activity' \in [Conns -> 0..MaxFrames]
    BY <1>12, ActivityTyping DEF RecvControl
  <2>2. CASE Goto(c, "check") /\ UNCHANGED <<transport, hb, rot>>
    BY <1>12, <2>1, <2>2 DEF RecvControl, FrameArrives
  <2>3. CASE transport' = [transport EXCEPT ![c] = "broken"] /\ ExitLoop(c)
    BY <1>12, <2>1, <2>3, AbortTyping DEF RecvControl, FrameArrives, ExitLoop
  <2>4. QED
    BY <1>12, <2>2, <2>3 DEF RecvControl
<1>13. ASSUME NEW c \in Conns, RecvDisconnect(c) PROVE IpInv'
  BY <1>13, AbortTyping, ActivityTyping DEF RecvDisconnect, ExitLoop, FrameArrives
<1>14. ASSUME NEW c \in Conns, RemoveSession(c) PROVE IpInv'
  BY <1>14 DEF RemoveSession
<1>15. ASSUME NEW c \in Conns, ReleaseIp(c) PROVE IpInv'
  BY <1>15, ReleaseKeepsLeases DEF ReleaseIp
<1>16. ASSUME NEW c \in Conns, RemoveKey(c) PROVE IpInv'
  BY <1>16 DEF RemoveKey
<1>17. ASSUME NEW c \in Conns, HeartbeatTick(c) PROVE IpInv'
  <2>1. CASE hbSeq' = [hbSeq EXCEPT ![c] = (@ + 1) % SeqMod] /\ UNCHANGED hb
    <3>1. hbSeq' \in [Conns -> 0..(SeqMod - 1)]
      BY <2>1
    <3>2. QED
      BY <1>17, <2>1, <3>1 DEF HeartbeatTick
  <2>2. CASE hb' = [hb EXCEPT ![c] = "exited"] /\ UNCHANGED hbSeq
    BY <1>17, <2>2 DEF HeartbeatTick
  <2>3. QED
    BY <1>17, <2>1, <2>2 DEF HeartbeatTick
<1>18. ASSUME NEW c \in Conns, RotationTick(c) PROVE IpInv'
  <2>1. keyStore[Owner[c]] \in Keys \cup {NoKey}
    OBVIOUS
  <2>2. QED
    BY <1>18, <2>1 DEF RotationTick
<1>19. ASSUME NEW c \in Conns, RotationSend(c) PROVE IpInv'
  <2>1. <<c, rotGen[c]>> \in Keys
    BY KeyTyping
  <2>2. CASE transport[c] = "open"
             /\ peerKey' = [peerKey EXCEPT ![c] = IF @ = rotOld[c] THEN <<c, rotGen[c]>> ELSE @]
             /\ rot' = [rot EXCEPT ![c] = "storing"]
    BY <1>19, <2>1, <2>2 DEF RotationSend
  <2>3. CASE rot' = [rot EXCEPT ![c] = "exited"] /\ UNCHANGED peerKey
    BY <1>19, <2>3 DEF RotationSend
  <2>4. QED
    BY <1>19, <2>2, <2>3 DEF RotationSend
<1>20. ASSUME NEW c \in Conns, RotationStore(c) PROVE IpInv'
  <2>1. <<c, rotGen[c]>> \in Keys
    BY KeyTyping
  <2>2. QED
    BY <1>20, <2>1 DEF RotationStore
<1>21. ASSUME NEW c \in Conns, RotationCancelled(c) PROVE IpInv'
  BY <1>21 DEF RotationCancelled
<1>22. ASSUME NEW c \in Conns, TransportFails(c) PROVE IpInv'
  BY <1>22 DEF TransportFails
<1>23. CASE ServerStops
  BY <1>23 DEF ServerStops
<1>24. CASE UNCHANGED vars
  BY <1>24 DEF vars
<1>25. QED
  BY <1>1, <1>2, <1>3, <1>4, <1>5, <1>6, <1>7, <1>8, <1>9, <1>10, <1>11,
     <1>12, <1>13, <1>14, <1>15, <1>16, <1>17, <1>18, <1>19, <1>20, <1>21,
     <1>22, <1>23, <1>24
  DEF Next, EngineStep, PeerFrame, Tasks

\* TypeOK holds in every reachable state of handle_client's model.
THEOREM TypeCorrect == Spec => []TypeOK
<1>1. IpInv => TypeOK
  BY DEF IpInv
<1>2. QED
  BY InitIpInv, NextIpInv, <1>1, PTL DEF Spec

\* Spec 3/8.2 for every number of connections and addresses: no address is
\* leased to two connections, nor leased while the pool can hand it out.
THEOREM IpLeasedOnceHolds == Spec => []IpLeasedOnce
<1>1. IpInv => IpLeasedOnce
  BY DEF IpInv
<1>2. QED
  BY InitIpInv, NextIpInv, <1>1, PTL DEF Spec

=============================================================================
