------------------------- MODULE MCClientHandler -------------------------
(* Small instances of ClientHandler for TLC.                              *)
EXTENDS ClientHandlerLifecycle

CONSTANTS c1, c2, k1, k2

\* Each connection is driven by the holder of a different client key.
OwnerDistinct == [c \in Conns |-> IF c = c1 THEN k1 ELSE k2]

\* Both connections are driven by the holder of the same client key.
OwnerShared == [c \in Conns |-> k1]

=============================================================================
