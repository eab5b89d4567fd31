----------------------------- MODULE Handshake -----------------------------
(***************************************************************************)
(* The authentication phase of handle_client (src/server/client.rs) in    *)
(* detail, composed with the challenge store of the AuthManager (spec     *)
(* 4.C; its code is not under src/).  Each connection's peer may claim    *)
(* any public key in its Auth frame and name any challenge id in its      *)
(* ChallengeResponse; it can only sign with the key it holds (Owner) and  *)
(* only challenge data that was sent to a connection of the same holder. *)
(* The store is shared by all connections, and the steps of different    *)
(* connections interleave at every await.                                 *)
(***************************************************************************)
EXTENDS FiniteSets

CONSTANTS
    Conns,    \* connections accepted by the server
    Clients,  \* client public keys
    Owner,    \* Owner[c]: the key whose private half the peer of c holds
    Allowed,  \* the clients the ACL admits
    Addr,     \* Addr[c]: the peer address (addr.to_string()) of c
    NoKey

ASSUME HandshakeAssumption ==
    /\ Owner \in [Conns -> Clients]
    /\ Allowed \subseteq Clients
    /\ NoKey \notin Clients
    \* The TCP peer address (ip:port) of a live connection is its own.
    /\ \A c, d \in Conns : Addr[c] = Addr[d] => c = d

\* A challenge id is an opaque fresh string; each connection requests one
\* challenge, so the model names it by that connection.
Ids == Conns

HsPhases == {"auth", "generate", "send", "response", "verify", "acl", "done", "failed"}

VARIABLES
    hs,      \* control point of each connection's handshake
    claim,   \* the public key claimed in the Auth frame
    answer,  \* the challenge id named in the ChallengeResponse
    store,   \* AuthManager's live challenges: pairs <<id, issuing address>>
    sent     \* ids of the challenges whose Challenge frame was sent

hvars == <<hs, claim, answer, store, sent>>

TypeOK ==
    /\ hs \in [Conns -> HsPhases]
    /\ claim \in [Conns -> Clients \cup {NoKey}]
    /\ answer \in [Conns -> Ids]
    /\ store \subseteq Ids \X {Addr[c] : c \in Conns}
    /\ sent \subseteq Ids

Init ==
    /\ hs = [c \in Conns |-> "auth"]
    /\ claim = [c \in Conns |-> NoKey]
    /\ answer = [c \in Conns |-> c]
    /\ store = {}
    /\ sent = {}

Goto(c, p) == hs' = [hs EXCEPT ![c] = p]

\* The challenges whose data the peer of c has seen: those sent to a
\* connection driven by the same key holder.
Known(c) == {i \in sent : Owner[i] = Owner[c]}

\* The signature in c's response verifies under the claimed key over the
\* data of the named challenge.
Signed(c) == claim[c] = Owner[c] /\ answer[c] \in Known(c)

\* An Auth frame with a well-formed public key arrives; the peer may claim
\* any key.
RecvAuth(c) ==
    /\ hs[c] = "auth"
    /\ \E k \in Clients : claim' = [claim EXCEPT ![c] = k]
    /\ Goto(c, "generate")
    /\ UNCHANGED <<answer, store, sent>>

\* generate_challenge(addr): a fresh challenge for the peer's address.
GenerateChallenge(c) ==
    /\ hs[c] = "generate"
    /\ store' = store \cup {<<c, Addr[c]>>}
    /\ Goto(c, "send")
    /\ UNCHANGED <<claim, answer, sent>>

\* The Challenge frame is sent.
SendChallenge(c) ==
    /\ hs[c] = "send"
    /\ sent' = sent \cup {c}
    /\ Goto(c, "response")
    /\ UNCHANGED <<claim, answer, store>>

\* A ChallengeResponse carrying the Auth key arrives in time; its
\* challenge_id is whatever the peer chose.
RecvResponse(c) ==
    /\ hs[c] = "response"
    /\ \E i \in Ids : answer' = [answer EXCEPT ![c] = i]
    /\ Goto(c, "verify")
    /\ UNCHANGED <<claim, store, sent>>

\* Fault-injection variant: the entry is looked up by id only.
VerifyChallengeAnyPeer(c) ==
    /\ hs[c] = "verify"
    /\ \/ /\ \E a \in {Addr[d] : d \in Conns} : <<answer[c], a>> \in store
          /\ Signed(c)
          /\ store' = {e \in store : e[1] # answer[c]}
          /\ Goto(c, "acl")
       \/ /\ Goto(c, "failed")
          /\ UNCHANGED store
    /\ UNCHANGED <<claim, answer, sent>>

\* verify_challenge(challenge_id, signature, public_key, addr): the entry
\* must exist for this address and the signature verify under the Auth
\* key; on success the entry is removed.  Any check may fail (Unknown,
\* Expired, PeerMismatch, BadSignature), Expired even when all others hold.
VerifyChallenge(c) ==
    /\ hs[c] = "verify"
    /\ \/ /\ <<answer[c], Addr[c]>> \in store
          /\ Signed(c)
          /\ store' = store \ {<<answer[c], Addr[c]>>}
          /\ Goto(c, "acl")
       \/ /\ Goto(c, "failed")
          /\ UNCHANGED store
    /\ UNCHANGED <<claim, answer, sent>>

\* is_client_allowed(public_key).
CheckAcl(c) ==
    /\ hs[c] = "acl"
    /\ Goto(c, IF claim[c] \in Allowed THEN "done" ELSE "failed")
    /\ UNCHANGED <<claim, answer, store, sent>>

\* Timeouts, closes, transport errors, undecodable or unexpected frames, a
\* bad key format, a failed challenge generation or send, and a response
\* key that differs from the Auth key.  Nothing is removed from the store.
HandshakeFails(c) ==
    /\ hs[c] \in {"auth", "generate", "send", "response"}
    /\ Goto(c, "failed")
    /\ UNCHANGED <<claim, answer, store, sent>>

\* The AuthManager's expiry sweep removes a challenge past its TTL.
ExpireChallenge ==
    /\ \E e \in store : store' = store \ {e}
    /\ UNCHANGED <<hs, claim, answer, sent>>

Step(c) ==
    \/ RecvAuth(c) \/ GenerateChallenge(c) \/ SendChallenge(c) \/ RecvResponse(c)
    \/ VerifyChallenge(c) \/ CheckAcl(c) \/ HandshakeFails(c)

Next == (\E c \in Conns : Step(c)) \/ ExpireChallenge

\* Both handshake reads carry a 30 s deadline, so every handshake step of a
\* connection is taken or preempted by HandshakeFails.
Spec == Init /\ [][Next]_hvars /\ \A c \in Conns : WF_hvars(Step(c))

-----------------------------------------------------------------------------
(* Properties                                                              *)

Authenticated == {"acl", "done"}

\* Spec 4.C (require peer_addr matches issuance, single use): the challenge
\* a connection verifies with is the one generated for it, although the
\* client chooses the challenge_id it sends and handle_client never
\* compares it with the id it issued.
ChallengeBoundToConnection ==
    \A c \in Conns : hs[c] \in Authenticated => answer[c] = c

=============================================================================
