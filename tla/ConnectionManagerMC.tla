------------------------- MODULE ConnectionManagerMC -------------------------
(* Small instances of ConnectionManager for TLC: ana has two sockets.       *)
EXTENDS ConnectionManager, TLC

CONSTANTS ana, ben, a1, a2, b1

MCOwner == [s \in Sockets |-> IF s = b1 THEN ben ELSE ana]
MCDisplayName == [u \in Users |-> u]

\* The sockets of one user are alike, and so are dictionary identities.
SocketSymmetry == Permutations({a1, a2})
=============================================================================
