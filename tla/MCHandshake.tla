--------------------------- MODULE MCHandshake ---------------------------
(* Small instances of Handshake for TLC.                                   *)
EXTENDS Handshake

CONSTANTS c1, c2, c3, k1, k2

\* c1 and c2 are opened by the same key holder, c3 by another.
OwnerTwoHolders == [c \in Conns |-> IF c = c3 THEN k2 ELSE k1]

\* Every connection has its own peer address.
AddrDistinct == [c \in Conns |-> <<"addr", c>>]

=============================================================================
