--------------------------- MODULE KeyStoreProofs ---------------------------
(***************************************************************************)
(* Proof that a running session's stored key is the key its peer holds    *)
(* (KeysAgree), for every number of connections and rotations, when no    *)
(* two connections authenticate as the same client.  With a shared        *)
(* client the property fails (run shared_client_key): the key store is    *)
(* indexed by the client's public key, and one session's cleanup or       *)
(* rotation overwrites the other's entry.  The theorem therefore has      *)
(* DistinctOwners as its hypothesis.                                       *)
(*                                                                         *)
(* KeysAgree is not inductive.  The strengthening follows one connection  *)
(* through establishment and the rotation task: store_key puts its key in *)
(* place before IpAssign gives the peer the same key; the rotation task   *)
(* is spawned only then; a KeyRotation is encrypted under the stored key, *)
(* which the peer holds, so the peer adopts the new key; and that key is  *)
(* what the rotation task stores next.  Under DistinctOwners no other     *)
(* connection writes the connection's entry of the store.                 *)
(***************************************************************************)
EXTENDS ClientHandlerProofs

\* No two connections authenticate as the same client key.
DistinctOwners == \A c, d \in Conns : Owner[c] = Owner[d] => c = d

\* What one connection's establishment and rotation task maintain.
KeyOK(d) ==
    /\ pc[d] \in {"wrap", "assign", "register"} => keyStore[Owner[d]] = SessionKey(d)
    /\ pc[d] = "register" => peerKey[d] = SessionKey(d)
    /\ pc[d] \in Handshake \cup Establish => rot[d] = "none"
    /\ pc[d] \in Loop /\ rot[d] = "sending" => rotOld[d] = keyStore[Owner[d]]
    /\ pc[d] \in Loop /\ rot[d] = "storing" => peerKey[d] = <<d, rotGen[d]>>
    /\ pc[d] \in Loop /\ rot[d] # "storing" => keyStore[Owner[d]] = peerKey[d]

KeyIInv == IpInv /\ \A d \in Conns : KeyOK(d)

\* A step leaves what KeyOK(d) reads alone.
LocalKept(d) ==
    /\ pc'[d] = pc[d] /\ rot'[d] = rot[d] /\ peerKey'[d] = peerKey[d]
    /\ rotOld'[d] = rotOld[d] /\ rotGen'[d] = rotGen[d]
    /\ keyStore'[Owner[d]] = keyStore[Owner[d]]

USE ConstAssumption

LEMMA InitKeyIInv == Init => KeyIInv
BY InitIpInv DEF Init, KeyIInv, KeyOK, Handshake, Establish, Loop

\* A step of connection c touches no other connection's part of the state,
\* nor, under DistinctOwners, its entry in the key store.
LEMMA OthersKept ==
    ASSUME TypeOK, DistinctOwners, NEW c \in Conns, NEW d \in Conns, d # c,
           EngineStep(c) \/ PeerFrame(c) \/ Tasks(c) \/ TransportFails(c)
    PROVE  LocalKept(d)
<1>1. Owner[d] # Owner[c] /\ Owner[d] \in Clients /\ Owner[c] \in Clients
  BY DEF DistinctOwners
<1>2. CASE EngineStep(c)
  BY <1>1, <1>2 DEF TypeOK, LocalKept, EngineStep, RecvAuth, RecvChallengeResponse,
                    HandshakeRejected, AllocateIp, StoreSessionKey, EncryptSessionKey,
                    SendIpAssign, RegisterSession, CheckServerState, RecvClosed,
                    RemoveSession, ReleaseIp, RemoveKey, Goto, ExitLoop, AbortTasks,
                    ReleaseIpOf, taskVars
<1>3. CASE PeerFrame(c)
  BY <1>1, <1>3 DEF TypeOK, LocalKept, PeerFrame, RecvData, RecvControl, RecvDisconnect,
                    FrameArrives, Goto, ExitLoop, AbortTasks, taskVars
<1>4. CASE Tasks(c) \/ TransportFails(c)
  BY <1>1, <1>4 DEF TypeOK, LocalKept, Tasks, HeartbeatTick, RotationTick, RotationSend,
                    RotationStore, RotationCancelled, TransportFails, engineVars, taskVars
<1>5. QED
  BY <1>2, <1>3, <1>4

LEMMA KeptKeyOK ==
    ASSUME NEW d \in Conns, KeyOK(d), LocalKept(d)
    PROVE  KeyOK(d)'
BY DEF KeyOK, LocalKept

\* Each step of connection c keeps KeyOK(c).
LEMMA OwnKept ==
    ASSUME TypeOK, NEW c \in Conns, KeyOK(c),
           EngineStep(c) \/ PeerFrame(c) \/ Tasks(c) \/ TransportFails(c)
    PROVE  KeyOK(c)'
<1>1. Owner[c] \in Clients
  OBVIOUS
<1>2. CASE RecvAuth(c) \/ RecvChallengeResponse(c) \/ HandshakeRejected(c) \/ AllocateIp(c)
  BY <1>2 DEF TypeOK, KeyOK, RecvAuth, RecvChallengeResponse, HandshakeRejected,
              AllocateIp, Goto, Handshake, Establish, Loop, taskVars
<1>3. CASE StoreSessionKey(c) \/ EncryptSessionKey(c)
  BY <1>1, <1>3 DEF TypeOK, KeyOK, StoreSessionKey, EncryptSessionKey, ReleaseIpOf, Goto,
                    Handshake, Establish, Loop, taskVars
<1>4. CASE SendIpAssign(c)
  BY <1>4 DEF TypeOK, KeyOK, SendIpAssign, ReleaseIpOf, Goto, Handshake, Establish, Loop, taskVars
<1>5. CASE RegisterSession(c)
  \* The session is registered with the key store and the peer on SessionKey(c).
  BY <1>5 DEF TypeOK, KeyOK, RegisterSession, Goto, Handshake, Establish, Loop, taskVars
<1>6. CASE CheckServerState(c) \/ RecvClosed(c) \/ PeerFrame(c)
  BY <1>6 DEF TypeOK, KeyOK, CheckServerState, RecvClosed, PeerFrame, RecvData,
              RecvControl, RecvDisconnect, FrameArrives, ExitLoop, AbortTasks, Goto,
              Handshake, Establish, Loop, taskVars, Cleanup
<1>7. CASE RemoveSession(c) \/ ReleaseIp(c) \/ RemoveKey(c)
  BY <1>1, <1>7 DEF TypeOK, KeyOK, RemoveSession, ReleaseIp, RemoveKey, ReleaseIpOf, Goto,
                    Handshake, Establish, Loop, taskVars
<1>8. CASE HeartbeatTick(c) \/ TransportFails(c) \/ RotationCancelled(c)
  BY <1>8 DEF TypeOK, KeyOK, HeartbeatTick, TransportFails, RotationCancelled, engineVars,
              Handshake, Establish, Loop, taskVars, Cleanup
<1>9. CASE RotationTick(c)
  \* The pending KeyRotation is encrypted under the key the store holds.
  BY <1>1, <1>9 DEF TypeOK, KeyOK, RotationTick, engineVars, Handshake, Establish, Loop, taskVars
<1>10. CASE RotationSend(c)
  \* The peer holds the stored key, which is rotOld, so it adopts the new one.
  BY <1>10 DEF TypeOK, KeyOK, RotationSend, Handshake, Establish, Loop, taskVars
<1>11. CASE RotationStore(c)
  \* The store catches up with the key the peer adopted.
  BY <1>1, <1>11 DEF TypeOK, KeyOK, RotationStore, Handshake, Establish, Loop, taskVars
<1>12. QED
  BY <1>2, <1>3, <1>4, <1>5, <1>6, <1>7, <1>8, <1>9, <1>10, <1>11
     DEF EngineStep, Tasks

LEMMA NextKeyIInv ==
    ASSUME DistinctOwners, KeyIInv, [Next]_vars
    PROVE  KeyIInv'
<1>1. IpInv'
  BY NextIpInv DEF KeyIInv
<1>2. TypeOK
  BY DEF KeyIInv, IpInv
<1>3. ASSUME NEW c \in Conns,
             EngineStep(c) \/ PeerFrame(c) \/ Tasks(c) \/ TransportFails(c)
      PROVE  \A d \in Conns : KeyOK(d)'
  <2>1. KeyOK(c)'
    BY <1>2, <1>3, OwnKept DEF KeyIInv
  <2>2. ASSUME NEW d \in Conns, d # c PROVE KeyOK(d)'
    <3>1. LocalKept(d)
      BY <1>2, <1>3, <2>2, OthersKept
    <3>2. QED
      BY <3>1, KeptKeyOK DEF KeyIInv
  <2>3. QED
    BY <2>1, <2>2
<1>4. ASSUME ServerStops \/ UNCHANGED vars PROVE \A d \in Conns : KeyOK(d)'
  BY <1>4 DEF KeyIInv, KeyOK, ServerStops, vars, engineVars, taskVars
<1>5. QED
  BY <1>1, <1>3, <1>4 DEF KeyIInv, Next

\* Spec 4.F for every number of connections and rotations: while a session
\* is in its message loop and its rotation task is not between the
\* KeyRotation send and store_key, SessionKeyManager holds the key the
\* client holds, provided no two connections authenticate as one client.
THEOREM KeysAgreeHolds ==
    ASSUME DistinctOwners
    PROVE  Spec => []KeysAgree
<1>1. KeyIInv /\ [Next]_vars => KeyIInv'
  BY NextKeyIInv
<1>2. KeyIInv => KeysAgree
  BY DEF KeyIInv, KeyOK, KeysAgree
<1>3. QED
  BY InitKeyIInv, <1>1, <1>2, PTL DEF Spec

=============================================================================
