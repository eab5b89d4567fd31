----------------------------- MODULE PoolProofs -----------------------------
(***************************************************************************)
(* Proof that handle_client returns every address it leases, for every    *)
(* number of connections and addresses, on every path except one: the ?   *)
(* on ClientSession::new (run session_new_leak shows that path leaks).   *)
(* The theorem therefore has "new" \notin Failures as its hypothesis.     *)
(*                                                                         *)
(* NoIpLeak is not inductive: a connection leaving the control points    *)
(* that hold a lease must give its address back, which follows only if a *)
(* connection outside those points holds no address.  LeaseExact says so *)
(* (with LeaseHeld of IpInv, ip[c] # NoIp exactly at HoldsIp).            *)
(***************************************************************************)
EXTENDS ClientHandlerProofs

\* Only a connection between allocate_ip and release_ip holds an address.
LeaseExact == \A c \in Conns : ip[c] # NoIp => pc[c] \in HoldsIp

LeakIInv == IpInv /\ LeaseExact /\ NoIpLeak

LEMMA InitLeakIInv == Init => LeakIInv
BY InitIpInv DEF LeakIInv, LeaseExact, NoIpLeak, Init

\* A move of c's main task that keeps the addresses and does not cross the
\* border of HoldsIp keeps LeaseExact and NoIpLeak.
LEMMA MoveKeepsLeases ==
    ASSUME TypeOK, LeaseExact, NoIpLeak, NEW c \in Conns, NEW q,
           pc' = [pc EXCEPT ![c] = q], ip' = ip, free' = free,
           pc[c] \in HoldsIp <=> q \in HoldsIp
    PROVE  LeaseExact' /\ NoIpLeak'
BY DEF TypeOK, LeaseExact, NoIpLeak

\* allocate_ip hands c a free address.
LEMMA AllocateKeepsLeases ==
    ASSUME TypeOK, LeaseExact, NoIpLeak, NEW c \in Conns, pc[c] = "alloc",
           NEW i \in free, ip' = [ip EXCEPT ![c] = i], free' = free \ {i},
           pc' = [pc EXCEPT ![c] = "storekey"]
    PROVE  LeaseExact' /\ NoIpLeak'
<1>1. ip[c] = NoIp
  BY DEF LeaseExact, HoldsIp, Establish, Loop
<1>2. "storekey" \in HoldsIp
  BY DEF HoldsIp, Establish
<1>3. LeaseExact'
  BY <1>2 DEF TypeOK, LeaseExact
<1>4. NoIpLeak'
  <2> SUFFICES ASSUME NEW j \in Ips
               PROVE  j \in free' \/ \E d \in Conns : ip'[d] = j /\ pc'[d] \in HoldsIp
    BY DEF NoIpLeak
  <2>1. CASE j = i
    BY <1>2, <2>1 DEF TypeOK
  <2>2. CASE j # i /\ j \in free
    BY <2>2
  <2>3. CASE j # i /\ j \notin free
    <3>1. PICK d \in Conns : ip[d] = j /\ pc[d] \in HoldsIp
      BY <2>3 DEF NoIpLeak
    <3>2. d # c
      BY <1>1, <3>1, ConstAssumption
    <3>3. QED
      BY <3>1, <3>2 DEF TypeOK
  <2>4. QED
    BY <2>1, <2>2, <2>3
<1>5. QED
  BY <1>3, <1>4

\* release_ip by c, moving it out of HoldsIp.
LEMMA ReleaseKeepsNoLeak ==
    ASSUME TypeOK, LeaseExact, NoIpLeak, NEW c \in Conns, ReleaseIpOf(c),
           NEW q, q \notin HoldsIp, pc' = [pc EXCEPT ![c] = q]
    PROVE  LeaseExact' /\ NoIpLeak'
BY DEF TypeOK, LeaseExact, NoIpLeak, ReleaseIpOf

LEMMA NextLeakIInv ==
    ASSUME "new" \notin Failures, LeakIInv, [Next]_vars
    PROVE  LeakIInv'
<1>1. IpInv'
  BY NextIpInv DEF LeakIInv
<1> USE DEF LeakIInv, IpInv
<1> DEFINE Kept == LeaseExact' /\ NoIpLeak'
<1>2. ASSUME NEW c \in Conns, RecvAuth(c) \/ RecvChallengeResponse(c) \/ HandshakeRejected(c)
      PROVE  Kept
  BY <1>2, MoveKeepsLeases DEF RecvAuth, RecvChallengeResponse, HandshakeRejected, Goto,
                               HoldsIp, Handshake, Establish, Loop
<1>3. ASSUME NEW c \in Conns, AllocateIp(c) PROVE Kept
  <2>1. CASE \E i \in free : ip' = [ip EXCEPT ![c] = i] /\ free' = free \ {i}
                            /\ Goto(c, "storekey")
    BY <1>3, <2>1, AllocateKeepsLeases DEF AllocateIp, Goto
  <2>2. CASE Goto(c, "failed") /\ UNCHANGED <<ip, free>>
    BY <1>3, <2>2, MoveKeepsLeases DEF AllocateIp, Goto, HoldsIp, Establish, Loop
  <2>3. QED
    BY <1>3, <2>1, <2>2 DEF AllocateIp
<1>4. ASSUME NEW c \in Conns, StoreSessionKey(c) \/ RemoveSession(c) \/ RemoveKey(c)
      PROVE  Kept
  BY <1>4, MoveKeepsLeases DEF StoreSessionKey, RemoveSession, RemoveKey, Goto,
                               HoldsIp, Establish, Loop
<1>5. ASSUME NEW c \in Conns, EncryptSessionKey(c) \/ SendIpAssign(c) PROVE Kept
  <2>1. CASE (Goto(c, "assign") \/ Goto(c, "register")) /\ UNCHANGED <<ip, free>>
          /\ pc[c] \in {"wrap", "assign"}
    BY <1>5, <2>1, MoveKeepsLeases DEF Goto, HoldsIp, Establish, Loop
  <2>2. CASE ReleaseIpOf(c) /\ Goto(c, "failed")
    BY <2>2, ReleaseKeepsNoLeak DEF Goto, HoldsIp, Establish, Loop
  <2>3. QED
    BY <1>5, <2>1, <2>2 DEF EncryptSessionKey, SendIpAssign
<1>6. ASSUME NEW c \in Conns, RegisterSession(c) PROVE Kept
  \* The failure branch needs "new" \in Failures.
  <2>1. pc' = [pc EXCEPT ![c] = "check"] /\ ip' = ip /\ free' = free
    BY <1>6 DEF RegisterSession, Goto
  <2>2. QED
    BY <1>6, <2>1, MoveKeepsLeases DEF RegisterSession, HoldsIp, Establish, Loop
<1>7. ASSUME NEW c \in Conns,
             \/ CheckServerState(c) \/ RecvClosed(c) \/ RecvData(c)
             \/ RecvControl(c) \/ RecvDisconnect(c)
      PROVE  Kept
  <2>1. pc[c] \in Loop /\ ip' = ip /\ free' = free
        /\ \E q \in Loop \cup {"unregister"} : pc' = [pc EXCEPT ![c] = q]
    BY <1>7 DEF CheckServerState, RecvClosed, RecvData, RecvControl, RecvDisconnect,
                FrameArrives, ExitLoop, Goto, Loop
  <2>2. QED
    BY <2>1, MoveKeepsLeases DEF HoldsIp, Loop, Establish
<1>8. ASSUME NEW c \in Conns, ReleaseIp(c) PROVE Kept
  BY <1>8, ReleaseKeepsNoLeak DEF ReleaseIp, Goto, HoldsIp, Establish, Loop
<1>9. ASSUME NEW c \in Conns, Tasks(c) \/ TransportFails(c) PROVE Kept
  BY <1>9 DEF Tasks, HeartbeatTick, RotationTick, RotationSend, RotationStore,
              RotationCancelled, TransportFails, engineVars, LeaseExact, NoIpLeak
<1>10. ASSUME ServerStops \/ UNCHANGED vars PROVE Kept
  BY <1>10 DEF ServerStops, vars, engineVars, LeaseExact, NoIpLeak
<1>11. Kept
  BY <1>2, <1>3, <1>4, <1>5, <1>6, <1>7, <1>8, <1>9, <1>10
     DEF Next, EngineStep, PeerFrame
<1>12. QED
  BY <1>1, <1>11

\* Spec 8.2 for every pool and every number of connections: whatever path
\* handle_client returns along (a failed allocation, crypto step or
\* IpAssign send, a transport error, a disconnect, shutdown), every
\* address is back in the pool once its connection no longer holds it,
\* provided ClientSession::new does not fail.
THEOREM NoIpLeakHolds ==
    ASSUME "new" \notin Failures
    PROVE  Spec => []NoIpLeak
<1>1. LeakIInv /\ [Next]_vars => LeakIInv'
  BY NextLeakIInv
<1>2. LeakIInv => NoIpLeak
  BY DEF LeakIInv
<1>3. QED
  BY InitLeakIInv, <1>1, <1>2, PTL DEF Spec

=============================================================================
