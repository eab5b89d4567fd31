------------------------- MODULE SessionLoopProofs -------------------------
(***************************************************************************)
(* Proofs about the inbound loop of process_client_session, for every     *)
(* number of connections and every bound.                                  *)
(*                                                                         *)
(* StopObservedWithinOneFrame is not inductive: a connection that read     *)
(* its one frame after the stop must not be at the read again.  StopInv    *)
(* says so: after the stop a connection has read no frame, or one and is   *)
(* not waiting in next_message.  It holds because the only step into the  *)
(* read, the server-state check at the top of the loop, requires Running. *)
(*                                                                         *)
(* NoNonzeroReplay is not inductive either: whether a new counter repeats *)
(* an earlier one depends on more than the last accepted counter.  The    *)
(* strengthening IncreasingSinceZero says the accepted counters increase  *)
(* strictly along every stretch in which no 0 is accepted; the replay     *)
(* check, which compares only with last_counter, keeps that.              *)
(***************************************************************************)
EXTENDS ClientHandlerProofs, SequenceTheorems

\* After the stop, each loop has read at most one frame, and one only if it
\* is no longer waiting for the next.
StopInv ==
    serverState = "Stopping" =>
        \A c \in Conns :
            \/ activity[c] = activityAtStop[c]
            \/ activity[c] = activityAtStop[c] + 1 /\ pc[c] # "read"

\* The counters of a sequence increase strictly between two accepted zeros.
IncreasingSince0(a) ==
    \A i, j \in 1..Len(a) :
        (i < j /\ \A k \in (i + 1)..j : a[k] # 0) => a[i] < a[j]

IncreasingSinceZero == \A c \in Conns : IncreasingSince0(accepted[c])

StopIInv == IpInv /\ StopInv
ReplayIInv == IpInv /\ IncreasingSinceZero

LEMMA InitStopIInv == Init => StopIInv
BY InitIpInv DEF StopIInv, StopInv, Init

LEMMA InitReplayIInv == Init => ReplayIInv
BY InitIpInv DEF ReplayIInv, IncreasingSinceZero, IncreasingSince0, Init

-----------------------------------------------------------------------------
(* The server-state check                                                  *)

\* A step after the stop in which one connection reads a frame and leaves
\* the read, and nothing else reads or moves to the read, keeps StopInv.
LEMMA StopStep ==
    ASSUME TypeOK, StopInv, serverState = "Stopping", serverState' = "Stopping",
           activityAtStop' = activityAtStop,
           \A d \in Conns :
               \/ activity'[d] = activity[d] /\ (pc'[d] = "read" => pc[d] = "read")
               \/ /\ pc[d] = "read" /\ pc'[d] # "read"
                  /\ activity'[d] = activity[d] + 1
    PROVE  StopInv'
<1> SUFFICES ASSUME NEW d \in Conns
             PROVE  \/ activity'[d] = activityAtStop'[d]
                    \/ activity'[d] = activityAtStop'[d] + 1 /\ pc'[d] # "read"
  BY DEF StopInv
<1>1. activity[d] \in Nat /\ activityAtStop[d] \in Nat
  BY DEF TypeOK
<1>2. \/ activity[d] = activityAtStop[d]
      \/ activity[d] = activityAtStop[d] + 1 /\ pc[d] # "read"
  BY DEF StopInv
<1>3. QED
  BY <1>1, <1>2

\* Every step but the stop itself leaves serverState and activityAtStop.
LEMMA EnvKept ==
    ASSUME NEW c \in Conns, EngineStep(c) \/ PeerFrame(c) \/ Tasks(c) \/ TransportFails(c)
    PROVE  serverState' = serverState /\ activityAtStop' = activityAtStop
BY DEF EngineStep, PeerFrame, Tasks, TransportFails, RecvAuth, RecvChallengeResponse,
       HandshakeRejected, AllocateIp, StoreSessionKey, EncryptSessionKey, SendIpAssign,
       RegisterSession, CheckServerState, RecvClosed, RemoveSession, ReleaseIp, RemoveKey,
       RecvData, RecvControl, RecvDisconnect, HeartbeatTick, RotationTick, RotationSend,
       RotationStore, RotationCancelled, envVars

LEMMA NextStopInv == StopIInv /\ [Next]_vars => StopIInv'
<1> SUFFICES ASSUME IpInv, StopInv, [Next]_vars PROVE IpInv' /\ StopInv'
  BY DEF StopIInv
<1>1. IpInv'
  BY NextIpInv
<1>2. StopInv'
  <2>2. CASE serverState' = "Running"
    BY <2>2 DEF StopInv
  <2>3. CASE ServerStops
    BY <2>3 DEF ServerStops, StopInv, engineVars
  <2>4. CASE UNCHANGED vars
    BY <2>4 DEF vars, envVars, engineVars, StopInv
  <2>5. ASSUME NEW c \in Conns,
               EngineStep(c) \/ PeerFrame(c) \/ Tasks(c) \/ TransportFails(c),
               serverState' = "Stopping"
        PROVE  StopInv'
    <3>1. serverState = "Stopping" /\ activityAtStop' = activityAtStop
      BY <2>5, EnvKept
    <3>2. pc \in [Conns -> Phases] /\ activity \in [Conns -> 0..MaxFrames]
      BY DEF IpInv, TypeOK
    \* A step of c that moves its main task to q # "read" and reads nothing.
    <3>3. ASSUME NEW q, q # "read", pc' = [pc EXCEPT ![c] = q], activity' = activity
          PROVE  StopInv'
      BY <3>1, <3>2, <3>3, <2>5, StopStep DEF IpInv
    \* A step that moves no main task and reads nothing.
    <3>4. ASSUME pc' = pc, activity' = activity
          PROVE  StopInv'
      BY <3>1, <3>3, <3>4, <2>5, StopStep DEF IpInv
    \* A frame is read and the loop goes to the check or leaves.
    <3>5. ASSUME pc[c] = "read", FrameArrives(c), NEW q, q # "read", pc' = [pc EXCEPT ![c] = q]
          PROVE  StopInv'
      <4>1. activity' = [activity EXCEPT ![c] = @ + 1]
        BY <3>5 DEF FrameArrives
      <4>2. QED
        BY <3>1, <3>2, <3>5, <4>1, <2>5, StopStep DEF IpInv
    <3>6. CASE EngineStep(c)
      <4>1. CASE CheckServerState(c)
        BY <3>1, <4>1, <3>3 DEF CheckServerState, ExitLoop, Goto
      <4>2. CASE RecvClosed(c)
        BY <4>2, <3>3 DEF RecvClosed, ExitLoop, Goto
      <4>3. CASE ~CheckServerState(c) /\ ~RecvClosed(c)
        BY <3>6, <4>3, <3>3 DEF EngineStep, RecvAuth, RecvChallengeResponse, HandshakeRejected,
                               AllocateIp, StoreSessionKey, EncryptSessionKey, SendIpAssign,
                               RegisterSession, RemoveSession, ReleaseIp, RemoveKey, Goto
      <4>4. QED
        BY <4>1, <4>2, <4>3
    <3>7. CASE PeerFrame(c)
      BY <3>7, <3>5 DEF PeerFrame, RecvData, RecvControl, RecvDisconnect, ExitLoop, Goto,
                        FrameArrives
    <3>8. CASE Tasks(c) \/ TransportFails(c)
      BY <3>8, <3>4 DEF Tasks, HeartbeatTick, RotationTick, RotationSend, RotationStore,
                        RotationCancelled, TransportFails, engineVars
    <3>9. QED
      BY <2>5, <3>6, <3>7, <3>8
  <2>6. QED
    BY <1>1, <2>2, <2>3, <2>4, <2>5 DEF Next, IpInv, TypeOK
<1>3. QED
  BY <1>1, <1>2

\* Spec 9 for every number of connections and frames: once the server
\* leaves Running, each inbound loop of process_client_session handles at
\* most one more frame, because the state is read at the top of every
\* iteration.
THEOREM StopObservedHolds == Spec => []StopObservedWithinOneFrame
<1>1. StopIInv => StopObservedWithinOneFrame
  <2> SUFFICES ASSUME StopIInv, serverState = "Stopping", NEW c \in Conns
               PROVE  activity[c] <= activityAtStop[c] + 1
    BY DEF StopObservedWithinOneFrame
  <2>1. activity[c] \in Nat /\ activityAtStop[c] \in Nat
    BY DEF StopIInv, IpInv, TypeOK
  <2>2. activity[c] = activityAtStop[c] \/ activity[c] = activityAtStop[c] + 1
    BY DEF StopIInv, StopInv
  <2>3. QED
    BY <2>1, <2>2
<1>2. QED
  BY InitStopIInv, NextStopInv, <1>1, PTL DEF Spec


-----------------------------------------------------------------------------
(* The replay check                                                        *)

\* Appending a counter that the replay check lets through, after a prefix
\* whose counters increase since the last zero, keeps them increasing.
LEMMA AppendIncreasing ==
    ASSUME NEW S \in SUBSET Nat, NEW a \in Seq(S), IncreasingSince0(a), NEW n \in S,
           ~ReplayRejects(IF a = <<>> THEN None ELSE a[Len(a)], n)
    PROVE  IncreasingSince0(Append(a, n))
<1>1. Len(a) \in Nat /\ \A k \in 1..Len(a) : a[k] \in Nat
  BY LenProperties
<1>2. /\ Len(Append(a, n)) = Len(a) + 1
      /\ Append(a, n)[Len(a) + 1] = n
      /\ \A k \in 1..Len(a) : Append(a, n)[k] = a[k]
  BY AppendProperties
<1>3. Len(<<>>) = 0
  BY EmptySeq
<1> SUFFICES ASSUME NEW i \in 1..(Len(a) + 1), NEW j \in 1..(Len(a) + 1), i < j,
                    \A k \in (i + 1)..j : Append(a, n)[k] # 0
             PROVE  Append(a, n)[i] < Append(a, n)[j]
  BY <1>2 DEF IncreasingSince0
<1>4. CASE j <= Len(a)
  <2>1. \A k \in (i + 1)..j : a[k] # 0
    BY <1>1, <1>2, <1>4
  <2>2. a[i] < a[j]
    BY <1>1, <1>4, <2>1 DEF IncreasingSince0
  <2>3. QED
    BY <1>1, <1>2, <1>4, <2>2
<1>5. CASE j = Len(a) + 1
  <2>1. n # 0 /\ Len(a) >= 1
    BY <1>1, <1>2, <1>5
  <2>2. a[Len(a)] < n
    <3>1. a # <<>> /\ a[Len(a)] \in Nat
      BY <1>1, <1>3, <2>1
    <3>2. QED
      BY <2>1, <3>1 DEF ReplayRejects, None
  <2>3. CASE i = Len(a)
    BY <1>2, <1>5, <2>2, <2>3
  <2>4. CASE i < Len(a)
    <3>1. \A k \in (i + 1)..Len(a) : a[k] # 0
      BY <1>1, <1>2, <1>5
    <3>2. a[i] < a[Len(a)]
      BY <1>1, <2>1, <2>4, <3>1 DEF IncreasingSince0
    <3>3. QED
      BY <1>1, <1>2, <1>5, <2>2, <2>4, <3>2
  <2>5. QED
    BY <1>1, <2>3, <2>4
<1>6. QED
  BY <1>1, <1>4, <1>5

\* Only the Data handler changes the accepted counters.
LEMMA AcceptedKept ==
    ASSUME NEW c \in Conns,
           \/ EngineStep(c) \/ RecvControl(c) \/ RecvDisconnect(c) \/ Tasks(c)
           \/ TransportFails(c) \/ ServerStops
    PROVE  accepted' = accepted
BY DEF EngineStep, Tasks, TransportFails, ServerStops, RecvAuth, RecvChallengeResponse,
       HandshakeRejected, AllocateIp, StoreSessionKey, EncryptSessionKey, SendIpAssign,
       RegisterSession, CheckServerState, RecvClosed, RemoveSession, ReleaseIp, RemoveKey,
       RecvControl, RecvDisconnect, HeartbeatTick, RotationTick, RotationSend,
       RotationStore, RotationCancelled, engineVars

LEMMA NextReplayInv == ReplayIInv /\ [Next]_vars => ReplayIInv'
<1> SUFFICES ASSUME IpInv, IncreasingSinceZero, [Next]_vars
             PROVE  IpInv' /\ IncreasingSinceZero'
  BY DEF ReplayIInv
<1>1. IpInv'
  BY NextIpInv
<1>2. IncreasingSinceZero'
  <2>1. ASSUME NEW c \in Conns, RecvData(c) PROVE IncreasingSinceZero'
    <3>1. PICK n \in 0..MaxCounter :
              accepted' = IF ReplayRejects(LastCounter(c), n)
                          THEN accepted
                          ELSE [accepted EXCEPT ![c] = Append(@, n)]
      BY <2>1 DEF RecvData
    <3>2. CASE ReplayRejects(LastCounter(c), n)
      BY <3>1, <3>2 DEF IncreasingSinceZero
    <3>3. CASE ~ReplayRejects(LastCounter(c), n)
      <4>1. accepted[c] \in Seq(0..MaxCounter) /\ 0..MaxCounter \in SUBSET Nat
        BY DEF IpInv, TypeOK
      <4>2. IncreasingSince0(Append(accepted[c], n))
        BY <3>3, <4>1, AppendIncreasing DEF IncreasingSinceZero, LastCounter
      <4>3. accepted' = [accepted EXCEPT ![c] = Append(accepted[c], n)]
        BY <3>1, <3>3
      <4>4. QED
        BY <4>2, <4>3 DEF IncreasingSinceZero, IpInv, TypeOK
    <3>4. QED
      BY <3>2, <3>3
  <2>2. ASSUME NEW c \in Conns,
               \/ EngineStep(c) \/ RecvControl(c) \/ RecvDisconnect(c) \/ Tasks(c)
               \/ TransportFails(c) \/ ServerStops
        PROVE  IncreasingSinceZero'
    BY <2>2, AcceptedKept DEF IncreasingSinceZero
  <2>3. CASE UNCHANGED vars
    BY <2>3 DEF vars, engineVars, IncreasingSinceZero
  <2>4. QED
    <3>1. Conns # {} \/ Conns = {}
      OBVIOUS
    <3>2. CASE Conns = {}
      BY <3>2 DEF IncreasingSinceZero
    <3>3. CASE Conns # {}
      BY <3>3, <2>1, <2>2, <2>3 DEF Next, PeerFrame
    <3>4. QED
      BY <3>1, <3>2, <3>3
<1>3. QED
  BY <1>1, <1>2

\* Spec 4.F, 8.3 for every number of connections and counters: the replay
\* check of the Data handler, which compares a counter only with
\* last_counter, never accepts a non-zero counter twice unless a counter 0
\* was accepted in between.
THEOREM NoNonzeroReplayHolds == Spec => []NoNonzeroReplay
<1>1. ReplayIInv => NoNonzeroReplay
  <2> SUFFICES ASSUME ReplayIInv, NEW c \in Conns,
                      NEW i \in 1..Len(accepted[c]), NEW j \in 1..Len(accepted[c]),
                      i < j, accepted[c][i] = accepted[c][j], accepted[c][i] # 0,
                      \A k \in (i + 1)..(j - 1) : accepted[c][k] # 0
               PROVE  FALSE
    BY DEF NoNonzeroReplay
  <2>1. accepted[c] \in Seq(0..MaxCounter)
    BY DEF ReplayIInv, IpInv, TypeOK
  <2>2. \A k \in (i + 1)..j : accepted[c][k] # 0
    BY <2>1
  <2>3. accepted[c][i] < accepted[c][j]
    BY <2>1, <2>2 DEF ReplayIInv, IncreasingSinceZero, IncreasingSince0
  <2>4. accepted[c][i] \in Nat /\ accepted[c][j] \in Nat
    <3>1. accepted[c] \in [1..Len(accepted[c]) -> 0..MaxCounter]
      BY <2>1, LenProperties
    <3>2. QED
      BY <3>1
  <2>5. QED
    BY <2>3, <2>4
<1>2. QED
  BY InitReplayIInv, NextReplayInv, <1>1, PTL DEF Spec

=============================================================================
