--------------------------- MODULE ClientHandler ---------------------------
(***************************************************************************)
(* The per-connection session engine of src/server/client.rs:              *)
(* handle_client (authentication, session establishment, cleanup) and      *)
(* process_client_session (the inbound loop and the heartbeat and          *)
(* key-rotation tasks it spawns), for a set Conns of connections served    *)
(* concurrently.  The connections share the IP pool, the session-key store *)
(* (indexed by client public key), the session registry and the server    *)
(* state.  Every await of the code between two steps below is a point     *)
(* where other connections and tasks may interleave.                       *)
(***************************************************************************)
EXTENDS Integers, Sequences, FiniteSets

CONSTANTS
    Conns,        \* connections accepted by the server (one handle_client each)
    Clients,      \* client public keys
    Owner,        \* Owner[c]: the key whose private half the peer of c holds
    Allowed,      \* the clients the ACL admits
    Ips,          \* addresses of the IP pool
    MaxCounter,   \* Data counters the model's peers send: 0..MaxCounter
    MaxFrames,    \* bound on frames one session's inbound loop reads
    MaxRot,       \* bound on key rotations per session
    SeqMod,       \* heartbeat sequence wraps modulo SeqMod (u64 in the code)
    Failures,     \* which external failures may happen (see FailureKinds)
    NoIp, NoKey   \* sentinels

\* "alloc": IpPoolManager::allocate_ip fails although addresses are free;
\* "crypto": get_shared_secret or encrypt_session_key fails;
\* "new": ClientSession::new returns an error.
FailureKinds == {"alloc", "crypto", "new"}

\* A session key is a fresh random value; the model names it by the
\* connection that minted it and the rotation that produced it.
Keys == Conns \X (0..MaxRot)

ASSUME ConstAssumption ==
    /\ Owner \in [Conns -> Clients]
    /\ Allowed \subseteq Clients
    /\ MaxCounter \in Nat /\ MaxFrames \in Nat /\ MaxRot \in Nat
    /\ SeqMod \in Nat \ {0}
    /\ Failures \subseteq FailureKinds
    /\ NoIp \notin Ips /\ NoKey \notin Keys

\* Control points of handle_client / process_client_session.
Handshake == {"auth", "response"}
Establish == {"alloc", "storekey", "wrap", "assign", "register"}
Loop      == {"check", "read"}
Cleanup   == {"unregister", "release", "removekey"}
Phases    == Handshake \cup Establish \cup Loop \cup Cleanup \cup {"failed", "closed"}

VARIABLES
    pc,            \* control point of each connection's main task
    ip,            \* ip_address held by the connection, or NoIp
    free,          \* addresses the IP pool may hand out
    keyStore,      \* SessionKeyManager: client -> current session key
    registry,      \* SessionManager: connections whose session is registered
    serverState,   \* the shared ServerState
    transport,     \* "open" or "broken" (peer closed or network failure)
    peerKey,       \* the session key the peer of c holds
    accepted,      \* Data counters the replay check accepted, in order
    activity,      \* frames read by the inbound loop (update_activity calls)
    hb,            \* heartbeat task: "none", "ticking", "exited", "aborted"
    hbSeq,         \* heartbeat sequence number
    rot,           \* rotation task: "none", "idle", "sending", "storing", "exited", "aborted"
    rotGen,        \* rotations minted by the session
    rotOld,        \* key the pending KeyRotation is encrypted under
    activityAtStop \* activity of each connection when the server left Running

engineVars == <<pc, ip, free, keyStore, registry, peerKey, accepted, activity>>
taskVars   == <<hb, hbSeq, rot, rotGen, rotOld>>
envVars    == <<serverState, transport, activityAtStop>>
vars       == <<engineVars, taskVars, envVars>>

\* last_counter: None before the first accepted Data frame.
None == -1
LastCounter(c) == IF accepted[c] = <<>> THEN None ELSE accepted[c][Len(accepted[c])]

\* The session key minted for connection c (SessionKeyManager::generate_key).
SessionKey(c) == <<c, 0>>

TypeOK ==
    /\ pc \in [Conns -> Phases]
    /\ ip \in [Conns -> Ips \cup {NoIp}]
    /\ free \subseteq Ips
    /\ keyStore \in [Clients -> Keys \cup {NoKey}]
    /\ registry \subseteq Conns
    /\ serverState \in {"Running", "Stopping"}
    /\ transport \in [Conns -> {"open", "broken"}]
    /\ peerKey \in [Conns -> Keys \cup {NoKey}]
    /\ accepted \in [Conns -> Seq(0..MaxCounter)]
    /\ activity \in [Conns -> 0..MaxFrames]
    /\ hb \in [Conns -> {"none", "ticking", "exited", "aborted"}]
    /\ hbSeq \in [Conns -> 0..(SeqMod - 1)]
    /\ rot \in [Conns -> {"none", "idle", "sending", "storing", "exited", "aborted"}]
    /\ rotGen \in [Conns -> 0..MaxRot]
    /\ rotOld \in [Conns -> Keys \cup {NoKey}]
    /\ activityAtStop \in [Conns -> 0..MaxFrames]

Init ==
    /\ pc = [c \in Conns |-> "auth"]
    /\ ip = [c \in Conns |-> NoIp]
    /\ free = Ips
    /\ keyStore = [k \in Clients |-> NoKey]
    /\ registry = {}
    /\ serverState = "Running"
    /\ transport = [c \in Conns |-> "open"]
    /\ peerKey = [c \in Conns |-> NoKey]
    /\ accepted = [c \in Conns |-> <<>>]
    /\ activity = [c \in Conns |-> 0]
    /\ hb = [c \in Conns |-> "none"]
    /\ hbSeq = [c \in Conns |-> 0]
    /\ rot = [c \in Conns |-> "none"]
    /\ rotGen = [c \in Conns |-> 0]
    /\ rotOld = [c \in Conns |-> NoKey]
    /\ activityAtStop = [c \in Conns |-> 0]

Goto(c, p) == pc' = [pc EXCEPT ![c] = p]

\* The inbound loop exits (break): the JoinHandles of the heartbeat and
\* rotation tasks are aborted.  A task parked at an await is cancelled; a
\* rotation task that is between its send and its store_key is being polled
\* and only stops if store_key yields (RotationCancelled).
AbortTasks(c) ==
    /\ hb' = [hb EXCEPT ![c] = IF @ = "ticking" THEN "aborted" ELSE @]
    /\ rot' = [rot EXCEPT ![c] = IF @ \in {"idle", "sending"} THEN "aborted" ELSE @]

ExitLoop(c) == Goto(c, "unregister") /\ AbortTasks(c)

ReleaseIpOf(c) ==
    /\ free' = free \cup {ip[c]}
    /\ ip' = [ip EXCEPT ![c] = NoIp]

-----------------------------------------------------------------------------
(* Authentication phase                                                    *)

\* An Auth frame with a well-formed key arrives within 30 s; a challenge is
\* generated and sent.
RecvAuth(c) ==
    /\ pc[c] = "auth"
    /\ transport[c] = "open"
    /\ Goto(c, "response")
    /\ UNCHANGED <<ip, free, keyStore, registry, peerKey, accepted, activity, taskVars, envVars>>

\* The ChallengeResponse carries the Auth key, its signature over the
\* challenge verifies (the peer holds Owner[c] only) and the ACL admits it.
RecvChallengeResponse(c) ==
    /\ pc[c] = "response"
    /\ transport[c] = "open"
    /\ Owner[c] \in Allowed
    /\ Goto(c, "alloc")
    /\ UNCHANGED <<ip, free, keyStore, registry, peerKey, accepted, activity, taskVars, envVars>>

\* Every other outcome of the two handshake reads: timeout, close, transport
\* error, wrong packet kind, undecodable frame, bad key format, challenge
\* generation or send failure, key mismatch, bad signature, ACL denial.  The
\* handler returns an error; nothing has been allocated yet.
HandshakeRejected(c) ==
    /\ pc[c] \in Handshake
    /\ Goto(c, "failed")
    /\ UNCHANGED <<ip, free, keyStore, registry, peerKey, accepted, activity, taskVars, envVars>>

-----------------------------------------------------------------------------
(* Session establishment                                                   *)

AllocateIp(c) ==
    /\ pc[c] = "alloc"
    /\ \/ \E i \in free :
            /\ ip' = [ip EXCEPT ![c] = i]
            /\ free' = free \ {i}
            /\ Goto(c, "storekey")
       \/ /\ free = {} \/ "alloc" \in Failures
          /\ Goto(c, "failed")
          /\ UNCHANGED <<ip, free>>
    /\ UNCHANGED <<keyStore, registry, peerKey, accepted, activity, taskVars, envVars>>

\* generate_key, then store_key under the client's public key.
StoreSessionKey(c) ==
    /\ pc[c] = "storekey"
    /\ keyStore' = [keyStore EXCEPT ![Owner[c]] = SessionKey(c)]
    /\ Goto(c, "wrap")
    /\ UNCHANGED <<ip, free, registry, peerKey, accepted, activity, taskVars, envVars>>

\* Fault-injection variant: a crypto failure returns without releasing the IP.
EncryptSessionKeyNoRelease(c) ==
    /\ pc[c] = "wrap"
    /\ \/ Goto(c, "assign")
       \/ "crypto" \in Failures /\ Goto(c, "failed")
    /\ UNCHANGED <<ip, free, keyStore, registry, peerKey, accepted, activity, taskVars, envVars>>

\* get_shared_secret and encrypt_session_key; on failure the IP is released
\* and the handler returns (the stored key is left in place).
EncryptSessionKey(c) ==
    /\ pc[c] = "wrap"
    /\ \/ /\ Goto(c, "assign")
          /\ UNCHANGED <<ip, free>>
       \/ /\ "crypto" \in Failures
          /\ ReleaseIpOf(c)
          /\ Goto(c, "failed")
    /\ UNCHANGED <<keyStore, registry, peerKey, accepted, activity, taskVars, envVars>>

\* Fault-injection variant: a failed IpAssign send releases the IP but the
\* handler carries on (missing return).
SendIpAssignNoReturn(c) ==
    /\ pc[c] = "assign"
    /\ free' = free \cup {ip[c]}
    /\ Goto(c, "register")
    /\ UNCHANGED <<ip, keyStore, registry, peerKey, accepted, activity, taskVars, envVars>>

\* Send IpAssign; the peer learns the session key.  A failed send releases
\* the IP and returns (the stored key is left in place).
SendIpAssign(c) ==
    /\ pc[c] = "assign"
    /\ \/ /\ transport[c] = "open"
          /\ peerKey' = [peerKey EXCEPT ![c] = SessionKey(c)]
          /\ Goto(c, "register")
          /\ UNCHANGED <<ip, free>>
       \/ /\ transport[c] = "broken"
          /\ ReleaseIpOf(c)
          /\ Goto(c, "failed")
          /\ UNCHANGED peerKey
    /\ UNCHANGED <<keyStore, registry, accepted, activity, taskVars, envVars>>

\* ClientSession::new(...)? then add_session, then process_client_session
\* spawns the heartbeat and rotation tasks.  The ? returns without cleanup.
RegisterSession(c) ==
    /\ pc[c] = "register"
    /\ \/ /\ registry' = registry \cup {c}
          /\ hb' = [hb EXCEPT ![c] = "ticking"]
          /\ rot' = [rot EXCEPT ![c] = "idle"]
          /\ Goto(c, "check")
       \/ /\ "new" \in Failures
          /\ Goto(c, "failed")
          /\ UNCHANGED <<registry, hb, rot>>
    /\ UNCHANGED <<ip, free, keyStore, peerKey, accepted, activity, hbSeq, rotGen, rotOld, envVars>>

-----------------------------------------------------------------------------
(* The inbound loop of process_client_session                              *)

\* Fault-injection variant: the server state is read once, before the loop.
CheckServerStateOnce(c) ==
    /\ pc[c] = "check"
    /\ \/ /\ serverState = "Running" \/ activity[c] > 0
          /\ Goto(c, "read")
          /\ UNCHANGED <<hb, rot>>
       \/ /\ serverState # "Running" /\ activity[c] = 0
          /\ ExitLoop(c)
    /\ UNCHANGED <<ip, free, keyStore, registry, peerKey, accepted, activity,
                   hbSeq, rotGen, rotOld, envVars>>

\* Top of the loop: read the server state; if not Running, send a
\* best-effort Disconnect and leave the loop.
CheckServerState(c) ==
    /\ pc[c] = "check"
    /\ \/ /\ serverState = "Running"
          /\ Goto(c, "read")
          /\ UNCHANGED <<hb, rot>>
       \/ /\ serverState # "Running"
          /\ ExitLoop(c)
    /\ UNCHANGED <<ip, free, keyStore, registry, peerKey, accepted, activity,
                   hbSeq, rotGen, rotOld, envVars>>

\* Fault-injection variant: a transport error is treated like an
\* undecodable frame and the loop continues.
RecvClosedContinue(c) ==
    /\ pc[c] = "read"
    /\ transport[c] = "broken"
    /\ Goto(c, "check")
    /\ UNCHANGED <<ip, free, keyStore, registry, peerKey, accepted, activity, taskVars, envVars>>

\* next_message returns None or Some(Err): leave the loop.
RecvClosed(c) ==
    /\ pc[c] = "read"
    /\ transport[c] = "broken"
    /\ ExitLoop(c)
    /\ UNCHANGED <<ip, free, keyStore, registry, peerKey, accepted, activity,
                   hbSeq, rotGen, rotOld, envVars>>

\* next_message returns a frame; update_activity.
FrameArrives(c) ==
    /\ pc[c] = "read"
    /\ transport[c] = "open"
    /\ activity[c] < MaxFrames
    /\ activity' = [activity EXCEPT ![c] = @ + 1]

\* Fault-injection variant: the replay check drops only counter < last.
ReplayRejectsStrict(last, n) == last # None /\ n < last /\ n # 0

\* The replay check of the Data handler: drop when counter <= last_counter
\* and counter # 0.
ReplayRejects(last, n) == last # None /\ n <= last /\ n # 0

RecvData(c) ==
    /\ FrameArrives(c)
    /\ \E n \in 0..MaxCounter :
          accepted' = IF ReplayRejects(LastCounter(c), n)
                      THEN accepted
                      ELSE [accepted EXCEPT ![c] = Append(@, n)]
    /\ Goto(c, "check")
    /\ UNCHANGED <<ip, free, keyStore, registry, peerKey, taskVars, envVars>>

\* Every other frame: Ping (reply Pong), IpRenewal (ignored if its session
\* id or IP is not this session's, else renew_ip and reply
\* IpRenewalResponse), Pong (latency recorded), any other packet kind and
\* undecodable frames (logged).  The loop continues, unless the send of a
\* required reply fails: then it is left with an error.
RecvControl(c) ==
    /\ FrameArrives(c)
    /\ \/ /\ Goto(c, "check")
          /\ UNCHANGED <<transport, hb, rot>>
       \/ /\ transport' = [transport EXCEPT ![c] = "broken"]
          /\ ExitLoop(c)
    /\ UNCHANGED <<ip, free, keyStore, registry, peerKey, accepted,
                   hbSeq, rotGen, rotOld, serverState, activityAtStop>>

RecvDisconnect(c) ==
    /\ FrameArrives(c)
    /\ ExitLoop(c)
    /\ UNCHANGED <<ip, free, keyStore, registry, peerKey, accepted,
                   hbSeq, rotGen, rotOld, envVars>>

-----------------------------------------------------------------------------
(* Cleanup in handle_client after process_client_session returns           *)

\* Fault-injection variant: remove_session is called with a key that does
\* not name the session.
RemoveSessionWrongId(c) ==
    /\ pc[c] = "unregister"
    /\ Goto(c, "release")
    /\ UNCHANGED <<ip, free, keyStore, registry, peerKey, accepted, activity, taskVars, envVars>>

RemoveSession(c) ==
    /\ pc[c] = "unregister"
    /\ registry' = registry \ {c}
    /\ Goto(c, "release")
    /\ UNCHANGED <<ip, free, keyStore, peerKey, accepted, activity, taskVars, envVars>>

ReleaseIp(c) ==
    /\ pc[c] = "release"
    /\ ReleaseIpOf(c)
    /\ Goto(c, "removekey")
    /\ UNCHANGED <<keyStore, registry, peerKey, accepted, activity, taskVars, envVars>>

RemoveKey(c) ==
    /\ pc[c] = "removekey"
    /\ keyStore' = [keyStore EXCEPT ![Owner[c]] = NoKey]
    /\ Goto(c, "closed")
    /\ UNCHANGED <<ip, free, registry, peerKey, accepted, activity, taskVars, envVars>>

-----------------------------------------------------------------------------
(* The heartbeat task                                                      *)

\* Fault-injection variant: the sequence is incremented without wrapping.
HeartbeatTickNoWrap(c) ==
    /\ hb[c] = "ticking"
    /\ transport[c] = "open"
    /\ hbSeq' = [hbSeq EXCEPT ![c] = @ + 1]
    /\ UNCHANGED <<engineVars, hb, rot, rotGen, rotOld, envVars>>

HeartbeatTick(c) ==
    /\ hb[c] = "ticking"
    /\ \/ /\ transport[c] = "open"
          /\ hbSeq' = [hbSeq EXCEPT ![c] = (@ + 1) % SeqMod]
          /\ UNCHANGED hb
       \/ /\ transport[c] = "broken"
          /\ hb' = [hb EXCEPT ![c] = "exited"]
          /\ UNCHANGED hbSeq
    /\ UNCHANGED <<engineVars, rot, rotGen, rotOld, envVars>>

-----------------------------------------------------------------------------
(* The key-rotation task                                                   *)

\* A tick on which needs_rotation holds and get_key finds the client's
\* current key: a new key is generated and encrypted under the current one.
\* (A tick where either fails, or the encryption fails, changes nothing.)
RotationTick(c) ==
    /\ rot[c] = "idle"
    /\ rotGen[c] < MaxRot
    /\ keyStore[Owner[c]] # NoKey
    /\ rotGen' = [rotGen EXCEPT ![c] = @ + 1]
    /\ rotOld' = [rotOld EXCEPT ![c] = keyStore[Owner[c]]]
    /\ rot' = [rot EXCEPT ![c] = "sending"]
    /\ UNCHANGED <<engineVars, hb, hbSeq, envVars>>

\* Fault-injection variant: the result of the KeyRotation send is ignored and
\* the new key is stored anyway.
RotationSendIgnoringError(c) ==
    /\ rot[c] = "sending"
    /\ peerKey' = [peerKey EXCEPT ![c] =
                      IF transport[c] = "open" /\ @ = rotOld[c] THEN <<c, rotGen[c]>> ELSE @]
    /\ rot' = [rot EXCEPT ![c] = "storing"]
    /\ UNCHANGED <<pc, ip, free, keyStore, registry, accepted, activity,
                   hb, hbSeq, rotGen, rotOld, envVars>>

\* Send KeyRotation; the peer adopts the new key if it can decrypt it.
RotationSend(c) ==
    /\ rot[c] = "sending"
    /\ \/ /\ transport[c] = "open"
          /\ peerKey' = [peerKey EXCEPT ![c] =
                            IF @ = rotOld[c] THEN <<c, rotGen[c]>> ELSE @]
          /\ rot' = [rot EXCEPT ![c] = "storing"]
       \/ /\ transport[c] = "broken"
          /\ rot' = [rot EXCEPT ![c] = "exited"]
          /\ UNCHANGED peerKey
    /\ UNCHANGED <<pc, ip, free, keyStore, registry, accepted, activity,
                   hb, hbSeq, rotGen, rotOld, envVars>>

\* store_key of the new key under the client's public key.
RotationStore(c) ==
    /\ rot[c] = "storing"
    /\ keyStore' = [keyStore EXCEPT ![Owner[c]] = <<c, rotGen[c]>>]
    /\ rot' = [rot EXCEPT ![c] = "idle"]
    /\ UNCHANGED <<pc, ip, free, registry, peerKey, accepted, activity,
                   hb, hbSeq, rotGen, rotOld, envVars>>

\* The abort takes effect when store_key yields before storing.
RotationCancelled(c) ==
    /\ rot[c] = "storing"
    /\ pc[c] \in Cleanup \cup {"closed"}
    /\ rot' = [rot EXCEPT ![c] = "aborted"]
    /\ UNCHANGED <<engineVars, hb, hbSeq, rotGen, rotOld, envVars>>

-----------------------------------------------------------------------------
(* The environment                                                         *)

\* The peer closes the connection or the network fails.
TransportFails(c) ==
    /\ transport[c] = "open"
    /\ pc[c] \notin {"failed", "closed"}
    /\ transport' = [transport EXCEPT ![c] = "broken"]
    /\ UNCHANGED <<engineVars, taskVars, serverState, activityAtStop>>

\* The server leaves Running (shutdown).
ServerStops ==
    /\ serverState = "Running"
    /\ serverState' = "Stopping"
    /\ activityAtStop' = activity
    /\ UNCHANGED <<engineVars, taskVars, transport>>

-----------------------------------------------------------------------------

\* Steps of the main task that do not wait on the peer: the handshake reads
\* carry a 30 s timeout, and a read on a broken transport returns.
EngineStep(c) ==
    \/ RecvAuth(c) \/ RecvChallengeResponse(c) \/ HandshakeRejected(c)
    \/ AllocateIp(c) \/ StoreSessionKey(c) \/ EncryptSessionKey(c)
    \/ SendIpAssign(c) \/ RegisterSession(c) \/ CheckServerState(c)
    \/ RecvClosed(c) \/ RemoveSession(c) \/ ReleaseIp(c) \/ RemoveKey(c)

\* Inbound frames the peer chooses to send.
PeerFrame(c) ==
    RecvData(c) \/ RecvControl(c) \/ RecvDisconnect(c)

Tasks(c) ==
    \/ HeartbeatTick(c)
    \/ RotationTick(c) \/ RotationSend(c) \/ RotationStore(c) \/ RotationCancelled(c)

Next ==
    \/ \E c \in Conns : EngineStep(c) \/ PeerFrame(c) \/ Tasks(c) \/ TransportFails(c)
    \/ ServerStops

\* Each connection's main task is scheduled by the runtime whenever it can
\* run without waiting on its peer.
Fairness == \A c \in Conns : WF_vars(EngineStep(c))

Spec == Init /\ [][Next]_vars /\ Fairness

-----------------------------------------------------------------------------
(* Properties                                                              *)

\* Control points where a connection still owns its IP lease.
HoldsIp == (Establish \ {"alloc"}) \cup Loop \cup {"unregister", "release"}

\* Control points where a connection's session key is (meant to be) stored.
HoldsKey == {"wrap", "assign", "register"} \cup Loop \cup Cleanup

\* Spec 3/8.2: an address is leased to at most one connection, and never
\* while the pool could hand it out again (allocate_ip, release_ip on the
\* failure paths of handle_client and in its cleanup).
IpLeasedOnce ==
    \A c, d \in Conns :
        ip[c] # NoIp => /\ ip[c] \notin free
                        /\ (c # d => ip[c] # ip[d])

\* Spec 8.2: every address is back in the pool once the connection that
\* held it has ended, whatever path handle_client returned along.
NoIpLeak ==
    \A i \in Ips : i \in free \/ \E c \in Conns : ip[c] = i /\ pc[c] \in HoldsIp

\* Spec 8.1: a session is in the SessionManager exactly from add_session
\* until remove_session, and while it is there its IP is still leased.
SessionRegistered ==
    \A c \in Conns :
        /\ c \in registry <=> pc[c] \in Loop \cup {"unregister"}
        /\ c \in registry => ip[c] # NoIp

\* The replay check of the Data handler: a non-zero counter is accepted a
\* second time only if a counter 0 was accepted in between.
NoNonzeroReplay ==
    \A c \in Conns :
        LET a == accepted[c] IN
        \A i, j \in 1..Len(a) :
            (i < j /\ a[i] = a[j] /\ a[i] # 0) => \E k \in (i + 1)..(j - 1) : a[k] = 0

\* Spec 8.3, 4.F: the accepted counters increase strictly, except for at
\* most one drop back to 0 (the single u64 wrap-around the carve-out allows).
AcceptedCountersIncrease ==
    \A c \in Conns :
        LET a == accepted[c]
            drops == {i \in 1..(Len(a) - 1) : a[i + 1] <= a[i]}
        IN  /\ Cardinality(drops) <= 1
            /\ \A i \in drops : a[i + 1] = 0

\* Spec 9: once the server leaves Running, each inbound loop handles at
\* most one more frame before it sees the state and disconnects.
StopObservedWithinOneFrame ==
    serverState = "Stopping" => \A c \in Conns : activity[c] <= activityAtStop[c] + 1

\* Spec 4.F: while a session runs and no rotation is between its send and
\* its store_key, the key the server will decrypt its Data with is the key
\* its peer holds (IpAssign, then each KeyRotation).
KeysAgree ==
    \A c \in Conns :
        (pc[c] \in Loop /\ rot[c] # "storing") => keyStore[Owner[c]] = peerKey[c]

\* Spec 4 (TERMINATED): after the cleanup of a session no key it minted is
\* left in the key store.
SessionKeyErasedOnCleanup ==
    \A c \in Conns :
        pc[c] = "closed" => keyStore[Owner[c]] \notin {c} \X (0..MaxRot)

\* Spec 4.F step 5, 3: a key is stored for a client only while one of its
\* connections is between store_key and remove_key.
NoOrphanKey ==
    \A k \in Clients :
        keyStore[k] # NoKey => \E c \in Conns : Owner[c] = k /\ pc[c] \in HoldsKey

\* A broken transport ends the connection: its handler reaches a return,
\* having run the cleanup if the session was established.
BrokenLeadsToEnd ==
    \A c \in Conns : transport[c] = "broken" ~> pc[c] \in {"failed", "closed"}

\* Spec S6 and 4.F: once the server is Stopping, every handler eventually
\* returns, having run its cleanup if it established a session.
ShutdownCompletes ==
    serverState = "Stopping" ~> \A c \in Conns : pc[c] \in {"failed", "closed"}

=============================================================================
