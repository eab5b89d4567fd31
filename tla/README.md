# Formal model of the AeroNyx server's client-session engine

This directory holds the TLA+ development kept beside
`src/src/server/client.rs`: modules, TLC configurations, TLAPS proofs and the
project description `PROJECT.json`. It models the code that accepts one
client connection, authenticates it, establishes a session (IP lease, session
key, IpAssign), runs the session loop with its heartbeat and key-rotation
tasks, and cleans up.

## 1. The system and its parts (inventory)

The repository's `src/` holds two files: `server/client.rs` (575 lines, the
session engine) and `protocol/mod.rs` (re-exports only). Everything the engine
calls lives outside `src/` and is known from `spec.md` and from the call sites:

| Part | Where | In the model |
|---|---|---|
| Session engine: `handle_client`, `process_client_session` | `client.rs` | **modelled**, `ClientHandler` |
| Heartbeat task, key-rotation task (spawned per session) | `client.rs` 342-415 | **modelled**, actions of `ClientHandler` |
| TLS acceptor, WebSocket transport | `client.rs` 36-81, the `ws_*` halves | partly: a transport per connection, `open` or `broken` |
| Challenge authenticator (`AuthManager`, ACL) | outside `src/` | partly: the verdict in `ClientHandler`; the challenge store and its peer-address check in `Handshake` (spec-modelled) |
| IP pool (`IpPoolManager`) | outside `src/` | partly: the set `free`; `allocate_ip`/`release_ip` at their call sites |
| Session key store (`SessionKeyManager`) | outside `src/` | partly: `keyStore`, client key -> current key |
| Session registry (`SessionManager`) | outside `src/` | partly: the set `registry` |
| Frame codec (`protocol::serialization`, `types`) | outside `src/` | not modelled: a frame is its decoded packet kind |
| Packet router, NetworkMonitor, metrics | outside `src/` | not modelled: they never change the engine's control |
| `protocol/mod.rs` | `src/` | not modelled: no behaviour |

How the parts interact: one tokio task runs `handle_client` per accepted
connection. Connections share the IP pool, the key store and the registry;
every call into them is an `await`, so the steps of different connections,
and of a connection's own heartbeat and rotation tasks, interleave. The
rotation task reads the current key from the shared store, sends a
`KeyRotation` through the session and then stores the new key. When the loop
ends, the main task aborts both spawned tasks (`abort()` takes effect at the
task's next yield) and runs cleanup: `remove_session`, `release_ip`,
`remove_key`, in that order.

## 2. Module `ClientHandler` and how it corresponds to the code

Constants: `Conns` (connections), `Clients` (client public keys), `Owner`
(the key each connection authenticates as; two connections may share one),
`Allowed` (the ACL), `Ips` (the pool), `MaxCounter`, `MaxFrames`, `MaxRot`
(bounds on Data counters, frames read and rotations), `SeqMod` (the width of
the heartbeat sequence, wrapping as `wrapping_add` does), `Failures` (which
failure outcomes of out-of-`src/` calls are enabled: `"alloc"`, `"crypto"`,
`"new"`). Keys are modelled as `<<connection, generation>>` so that a key
names the session that minted it.

State: `pc` (the control point of each connection's main task), `ip`,
`free`, `keyStore`, `registry`, `peerKey` (the key the peer holds),
`accepted` (the Data counters the replay check let through), `activity`
(frames read), `hb`/`hbSeq` (heartbeat task), `rot`/`rotGen`/`rotOld`
(rotation task), `serverState`, `transport`, `activityAtStop`.

Actions, one per step of the code, each the whole handler with its error
paths (line numbers of `client.rs`; the exact ranges are in `PROJECT.json`):

- `RecvAuth` 84-123, `RecvChallengeResponse` 125-150, `HandshakeRejected`
  (every early return of the handshake, 84-211);
- `AllocateIp` 215-226, `StoreSessionKey` 228-235, `EncryptSessionKey`
  237-266 (its failure releases the IP, as the code does, and leaves the key),
  `SendIpAssign` 268-283, `RegisterSession` 286-310 (`ClientSession::new`,
  whose `?` may fail, `add_session`, spawn of the two tasks);
- the loop: `CheckServerState` 422-430, `FrameArrives` 432-436, then
  `RecvData` 443-470 (with `ReplayRejects`, the check of 445-450),
  `RecvControl` 471-552 (Ping, Pong, IpRenewal, other kinds, undecodable:
  continue, or a failed reply send ends the loop), `RecvDisconnect` 533-537,
  `RecvClosed` 554-563; ending the loop aborts both tasks (568-570);
- cleanup: `RemoveSession` 314, `ReleaseIp` 315-317, `RemoveKey` 318;
- tasks: `HeartbeatTick` 342-361, `RotationTick` 363-390 (needs_rotation,
  generate, read the current key, wrap), `RotationSend` 391-402,
  `RotationStore` 404, `RotationCancelled` (the abort taking effect);
- environment: `TransportFails` (peer or network breaks the connection),
  `ServerStops` (the server core sets `ServerState::Stopping`).

`MCClientHandler` declares model values for two connections and two clients
and the two `Owner` maps used by the configurations.

## 2a. Module `Handshake`: authentication against the shared challenge store

`Handshake` models the authentication phase of `handle_client` (84-211) in
more detail than `ClientHandler`, composed with the challenge store of
`AuthManager`, whose code is not under `src/` and is modelled from spec 4.C.
Constants: `Conns`, `Clients`, `Owner` (the key whose private half each
connection's peer holds), `Allowed`, `Addr` (each connection's peer address,
`addr.to_string()`), `NoKey`. `HandshakeAssumption` requires `Addr` to be
injective: two live TCP connections never have the same ip:port.

State: `hs` (control point), `claim` (the key in the Auth frame), `answer`
(the challenge id in the ChallengeResponse), `store` (the live challenges,
pairs `<<id, issuing address>>`, shared by all connections), `sent` (the
challenges whose data went out). Actions: `RecvAuth` (the peer claims any
key), `GenerateChallenge` (98-107), `SendChallenge` (109-123),
`RecvResponse` (the peer names any id, 125-136), `VerifyChallenge`
(138-157: the entry for this id *and this address* must exist and the
signature verify under the claimed key over data the peer has seen; the
entry is then removed, single use), `CheckAcl` (141-149), `HandshakeFails`
(every timeout and early return), and `ExpireChallenge` (the store's expiry
sweep). A peer can only sign with `Owner[c]`, and only data sent to a
connection of the same key holder (`Known`, `Signed`).

`MCHandshake` has three connections, two of them driven by one key holder,
so that a peer can name a challenge issued to a sibling connection.
That the verified key is the key the peer holds is not a property here:
`Signed` contains `claim[c] = Owner[c]`, the signature abstraction, so it
would hold by construction.

## 2b. The abstract lifecycle and the refinement

`SessionLifecycle` is what the engine promises (spec 4.F): per connection a
phase `AWAIT_AUTH`, `AWAIT_RESPONSE`, `ESTABLISHING`, `RUNNING`,
`TERMINATED`, visited in that order with early exits to `TERMINATED`; a
`lease` held only while `RUNNING`, taken among addresses no other running
session holds (`Establish`) and given up on `Terminate`; and the set
`registered`. Its fairness makes every step that does not wait on the peer
(`Progress`) happen.

`ClientHandlerLifecycle` gives the refinement mapping. `StateOf` sends each
control point of `handle_client` to its engine state (the handshake reads to
the two AWAIT states, `alloc`..`register` to ESTABLISHING, the loop and
`unregister` to RUNNING, the rest to TERMINATED); the abstract lease is
`ip[c]` while RUNNING; `registered` is the registry. Under this mapping
`RegisterSession` is `Establish`, `RemoveSession` is `Terminate`, the
establishment failure paths are `Abort`, the handshake failures `Reject`,
and every other step (key store, wrap, send, frames of the loop, the tasks,
`release_ip`, `remove_key`) is a stutter. `LifecycleRefined == SL!Spec` is
checked by the run `lifecycle`.

## 3. Runs

| Run | cfg | Expect | What it shows |
|---|---|---|---|
| resources | `MCResources.cfg` | pass | 2 connections of different clients, 1 address, IP-pool and crypto failures: `TypeOK`, `IpLeasedOnce`, `NoIpLeak`, `SessionRegistered`, `KeysAgree` hold (683,632 states) |
| session_loop | `MCSessionLoop.cfg` | pass | 1 connection, 4 frames, counters 0..2, 2 rotations, all failures: `NoNonzeroReplay`, `StopObservedWithinOneFrame`, and the liveness `BrokenLeadsToEnd` hold |
| replay_zero | `MCReplayZero.cfg` | violation | `AcceptedCountersIncrease`: counter 0 is accepted 0, 0, 0 |
| shared_client_key | `MCSharedClientKey.cfg` | violation | `KeysAgree`: two sessions of one client; one's cleanup removes the other's key |
| rotation_after_cleanup | `MCRotationAfterCleanup.cfg` | violation | `SessionKeyErasedOnCleanup`: the aborted rotation task stores its key after `remove_key` |
| failed_establish_key | `MCFailedEstablishKey.cfg` | violation | `NoOrphanKey`: a wrap failure releases the IP but leaves the key |
| session_new_leak | `MCSessionNewLeak.cfg` | violation | `NoIpLeak`: `ClientSession::new(...)?` returns holding the IP |
| lifecycle | `MCLifecycle.cfg` | pass | 2 connections, 2 addresses, all establishment failures: the engine implements `SessionLifecycle`, fairness included (28,168 states) |
| handshake | `MCHandshake.cfg` | pass | 3 connections, 2 key holders, any claimed key and challenge id: `ChallengeBoundToConnection` (74,088 states) |
| shutdown_silent_peer | `MCShutdownSilentPeer.cfg` | violation | `ShutdownCompletes`: with the server Stopping and a silent peer the loop waits in `next_message` (433) forever |

The six violations are the findings of `PROJECT.json`. Each passing
property has a mutant there: a plausible bug in the mapped action (a dropped
`release_ip`, a missing `return` after a failed send, a `<` for `<=` in the
replay check, a rotation that ignores its send error, ...) that TLC catches.

Bounds. One address for two connections makes the pool exhaust and the
leases contend; two connections are the fewest that share anything.
`MaxCounter 2` with `MaxFrames 4` lets the replay check see repeats, drops
and the 0 carve-out. `MaxRot 2` lets a rotation follow a rotation. `SeqMod 2`
makes the heartbeat sequence wrap. The `lifecycle` run uses two addresses
so that both sessions can run at once and the exclusiveness of leases is
tested by a real competitor, with one frame and no rotation (frames and
rotations are stutters of the abstract spec, and the run checks fairness
over the whole graph). The `handshake` run needs three connections: two
that share a key holder (a peer that has seen a sibling's challenge data)
and one that does not. Deadlock is not checked: every handler
really terminates (`failed` or `closed`), and a terminated system has no
step.

Fairness. Only `EngineStep(c)`, the steps of the main task that do not wait
on the peer, are weakly fair: the handshake reads have 30 s / 1 s timeouts,
the establishment calls return, and a read on a broken transport returns an
error or `None`. The peer's frames (`PeerFrame`), the timers (`Tasks`) and
the environment are not fair: a peer may stay silent, and a session may be
cut at any time.

## 4. What is proved

`ClientHandlerProofs` proves, with TLAPS, for every value of the constants
that satisfies `ConstAssumption`:

- `TypeCorrect`: `Spec => []TypeOK`;
- `IpLeasedOnceHolds`: `Spec => []IpLeasedOnce`: no address is ever leased
  to two connections, or leased while it is in the pool.

`IpLeasedOnce` alone is not inductive: a step of `ReleaseIp` or of a failure
path puts `ip[c]` back in `free`, which is safe only if `ip[c]` really was a
lease. The inductive invariant is `IpInv == TypeOK /\ LeaseHeld /\
IpLeasedOnce`, where `LeaseHeld` says a connection whose control point is in
`HoldsIp` has an address. The proof shows `Init => IpInv` (`InitIpInv`) and
that each action preserves `IpInv` (`NextIpInv`, one step per action, with a
lemma `ReleaseKeepsLeases` shared by the four paths that release an address),
then concludes by PTL.

`HandshakeProofs` proves, under `HandshakeAssumption`:

- `HandshakeTypeCorrect` and `ChallengeBoundHolds`. `ChallengeBoundToConnection` is not inductive: a
  successful verification only checks that the named id is stored under
  this connection's address. The strengthening `StoreIssuedTo` says every
  stored entry carries the address of the connection it was issued to;
  with distinct addresses (`LookupNamesSelf`) an entry found under `c`'s
  address names `c`. The invariant `AuthInv` conjoins it with the type and
  the property.

`LifecycleProofs` proves, under `ConstAssumption`:

- `SessionRegisteredHolds`: `Spec => []SessionRegistered`, from the
  inductive `RefInv == IpInv /\ RegMatch`, where `RegMatch` says a
  connection is registered exactly when its control point is in the loop or
  at `unregister`;
- `LifecycleSafety`: `Spec => SL!Init /\ [][SL!Next]_SL!avars`, the safety
  part of the refinement. `NextRefines` shows that under `RefInv` every step
  is an abstract step or a stutter, one step per action; `RegisterSession`
  needs `IpLeasedOnce` (from `RefInv`) to show the address it runs with is
  leased by no other running session, and `LeaseHeld` to show it has one.
  Lemmas `PhaseMap`, `LeaseMap`, `SameState`, `PlainMove` and `NoMove` say how
  a move of one connection's main task shows in the mapped state.

`SessionLoopProofs` proves, under `ConstAssumption`:

- `StopObservedHolds`: `Spec => []StopObservedWithinOneFrame`. The
  property is not inductive: a loop that has read its one frame after the
  stop must not be back at the read. The strengthening `StopInv` says
  that after the stop a connection has read no frame, or one and is not at
  `read`. It holds because the only step into `read`, the server-state
  check at the top of the loop, requires `Running`.
- `NoNonzeroReplayHolds`: `Spec => []NoNonzeroReplay`. Whether a new
  counter repeats an earlier one depends on more than `last_counter`. The
  strengthening `IncreasingSinceZero` says the accepted counters increase
  strictly along every stretch with no accepted 0. The replay check
  (`n <= last` rejected unless `n = 0`) keeps it; lemma
  `AppendIncreasing` shows this for `Append`, using `SequenceTheorems`.

`PoolProofs` proves `NoIpLeakHolds`: `"new" \notin Failures =>
(Spec => []NoIpLeak)`. The hypothesis is the code's own gap: the `?` on
`ClientSession::new` returns without `release_ip`, and run
`session_new_leak` shows the leak. The passing run `resources` has
`Failures = {"alloc", "crypto"}`. The strengthening `LeaseExact` says only
a connection in `HoldsIp` holds an address. Without it, a connection
leaving `HoldsIp` could not be shown to give an address back.

`KeyStoreProofs` proves, under the hypothesis `DistinctOwners` (no two
connections authenticate as one client; run `shared_client_key` shows
`KeysAgree` fails without it):

- `KeysAgreeHolds`: `Spec => []KeysAgree`.

It rests on the per-connection invariant `KeyOK(d)`, which follows one
connection through establishment and rotation:
- `store_key` has put `SessionKey(d)` in place from `wrap` on;
- `IpAssign` gave the peer that key;
- the rotation task does not exist before `RegisterSession`;
- a pending KeyRotation is encrypted under the stored key;
- after a successful send the peer holds `<<d, rotGen[d]>>`, the key
  `store_key` installs next.

`OthersKept` shows that a step of another connection leaves all of this
alone. That is where `DistinctOwners` is needed: the store is indexed by
client, not by connection.

Only model-checked, on the instances of section 3:
- liveness: `BrokenLeadsToEnd` and the fairness part of
  `LifecycleRefined`. These need `WF` and `ENABLED`, which are outside
  TLAPS's reach here.
- the properties the violation runs refute (`AcceptedCountersIncrease`,
  `SessionKeyErasedOnCleanup`, `NoOrphanKey`,
  `ShutdownCompletes`, and `NoIpLeak` or `KeysAgree` without their
  hypotheses). They are false of the code, so they have no theorems.

## 5. Not modelled, and why

Frame encoding, TLS and WebSocket framing, and logging are conversions or
I/O with no effect on control; the router, the network monitor and metrics
receive data and never change the engine's state. Timestamps (Pong RTT) and
key age (`needs_rotation`) are nondeterministic choices. Lease expiry in the
IP pool is not modelled. Signature arithmetic and key formats are abstracted to
`Owner`: a peer signs with the key it holds. The content of a Data frame, and
so the key a frame was encrypted under, is not modelled. The window between
the KeyRotation send and `store_key`, in which Data under the new key is
dropped, is accepted by spec 3 and is left unchecked; `KeysAgree` excludes
it and catches a store that does not follow a successful send.

## 6. Plan for the next sittings

1. `IpPool`: leases with expiry and `renew_ip`, so `RecvControl`'s
   IpRenewal branch changes state.
2. Compose `Handshake` with `ClientHandler` (the verdict of
   `VerifyChallenge` feeding `RecvChallengeResponse`) and show
   `ClientHandler`'s handshake is a refinement of it.
3. More proofs: the handshake refinement once it exists, and lemmas on
   `IncreasingSince0` relating it to `AcceptedCountersIncrease` away
   from the 0 carve-out.
