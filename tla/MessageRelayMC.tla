--------------------------- MODULE MessageRelayMC ---------------------------
(* Small instances of MessageRelay for TLC: one socket per user, or two of   *)
(* ana's.                                                                    *)
EXTENDS MessageRelay

CONSTANTS ana, ben, a1, a2, b1

MCOwner == [s \in Sockets |-> IF s = b1 THEN ben ELSE ana]
=============================================================================
