-------------------------- MODULE HandshakeProofs --------------------------
(***************************************************************************)
(* Proofs about Handshake, for every set of connections, keys, owners and *)
(* peer addresses allowed by HandshakeAssumption.                         *)
(*                                                                         *)
(* ChallengeBoundToConnection is not inductive by itself: a successful    *)
(* verify_challenge only checks that the named id is stored for this      *)
(* connection's address.  The strengthening StoreIssuedTo says every     *)
(* stored entry carries the address of the connection that generated it; *)
(* since live connections have distinct addresses, an entry found under  *)
(* c's address was generated for c.                                       *)
(***************************************************************************)
EXTENDS Handshake, TLAPS

\* The store holds each challenge under the address it was issued to.
StoreIssuedTo == \A e \in store : e[2] = Addr[e[1]]

AuthInv == TypeOK /\ StoreIssuedTo /\ ChallengeBoundToConnection

USE HandshakeAssumption

LEMMA InitAuthInv == Init => AuthInv
BY DEF Init, AuthInv, TypeOK, StoreIssuedTo, ChallengeBoundToConnection,
       HsPhases, Ids, Authenticated

\* An entry stored under c's address names c.
LEMMA LookupNamesSelf ==
    ASSUME StoreIssuedTo, NEW c \in Conns, NEW i \in Conns, <<i, Addr[c]>> \in store
    PROVE  i = c
BY DEF StoreIssuedTo

LEMMA NextAuthInv == AuthInv /\ [Next]_hvars => AuthInv'
<1> SUFFICES ASSUME AuthInv, [Next]_hvars PROVE AuthInv'
  OBVIOUS
<1> USE DEF AuthInv, TypeOK, HsPhases, Ids, Goto, Authenticated
<1>1. ASSUME NEW c \in Conns, RecvAuth(c) PROVE AuthInv'
  BY <1>1 DEF RecvAuth, StoreIssuedTo, ChallengeBoundToConnection
<1>2. ASSUME NEW c \in Conns, GenerateChallenge(c) PROVE AuthInv'
  BY <1>2 DEF GenerateChallenge, StoreIssuedTo, ChallengeBoundToConnection
<1>3. ASSUME NEW c \in Conns, SendChallenge(c) PROVE AuthInv'
  BY <1>3 DEF SendChallenge, StoreIssuedTo, ChallengeBoundToConnection
<1>4. ASSUME NEW c \in Conns, RecvResponse(c) PROVE AuthInv'
  BY <1>4 DEF RecvResponse, StoreIssuedTo, ChallengeBoundToConnection
<1>5. ASSUME NEW c \in Conns, VerifyChallenge(c) PROVE AuthInv'
  <2>1. CASE /\ <<answer[c], Addr[c]>> \in store
             /\ Signed(c)
             /\ store' = store \ {<<answer[c], Addr[c]>>}
             /\ Goto(c, "acl")
    <3>1. answer[c] = c
      BY <2>1, LookupNamesSelf
    <3>2. TypeOK' /\ StoreIssuedTo'
      BY <1>5, <2>1 DEF VerifyChallenge, StoreIssuedTo
    <3>3. ChallengeBoundToConnection'
      BY <1>5, <2>1, <3>1 DEF VerifyChallenge, ChallengeBoundToConnection
    <3>4. QED
      BY <3>2, <3>3
  <2>2. CASE Goto(c, "failed") /\ UNCHANGED store
    BY <1>5, <2>2 DEF VerifyChallenge, StoreIssuedTo, ChallengeBoundToConnection
  <2>3. QED
    BY <1>5, <2>1, <2>2 DEF VerifyChallenge
<1>6. ASSUME NEW c \in Conns, CheckAcl(c) PROVE AuthInv'
  BY <1>6 DEF CheckAcl, StoreIssuedTo, ChallengeBoundToConnection
<1>7. ASSUME NEW c \in Conns, HandshakeFails(c) PROVE AuthInv'
  BY <1>7 DEF HandshakeFails, StoreIssuedTo, ChallengeBoundToConnection
<1>8. CASE ExpireChallenge
  BY <1>8 DEF ExpireChallenge, StoreIssuedTo, ChallengeBoundToConnection
<1>9. CASE UNCHANGED hvars
  BY <1>9 DEF hvars, StoreIssuedTo, ChallengeBoundToConnection
<1>10. QED
  BY <1>1, <1>2, <1>3, <1>4, <1>5, <1>6, <1>7, <1>8, <1>9 DEF Next, Step

\* Handshake steps keep every variable within its type.
THEOREM HandshakeTypeCorrect == Spec => []TypeOK
<1>1. AuthInv => TypeOK
  BY DEF AuthInv
<1>2. QED
  BY InitAuthInv, NextAuthInv, <1>1, PTL DEF Spec

\* A connection authenticates only with the challenge generated for it:
\* AuthManager's peer-address check binds the client-chosen challenge_id
\* to the connection, provided live connections have distinct addresses.
THEOREM ChallengeBoundHolds == Spec => []ChallengeBoundToConnection
<1>1. AuthInv => ChallengeBoundToConnection
  BY DEF AuthInv
<1>2. QED
  BY InitAuthInv, NextAuthInv, <1>1, PTL DEF Spec

=============================================================================
