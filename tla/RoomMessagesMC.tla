--------------------------- MODULE RoomMessagesMC ---------------------------
(* Small instances of RoomMessages for TLC. *)
EXTENDS RoomMessages, TLC

CONSTANTS x, a, b, u1, u2, r1, r2, rot1, h1

OneName == {x}
TwoUsers == {u1, u2}
TwoPrints == {a, b}
\* Two members of one name with a fingerprint each.
Namesakes == {[user |-> u1, name |-> x, fp |-> a], [user |-> u2, name |-> x, fp |-> b]}
AnyLeft == {[n \in OneName |-> k] : k \in {NoPrint, a, b}}
\* The two differ in nothing but their fingerprints: they are exchanged with them.
NamesakeSymmetry ==
    {p \in Permutations({u1, u2, a, b}) :
        p[u1] \in TwoUsers /\ p[u2] \in TwoUsers /\ (p[u1] = u1 <=> p[a] = a)}
TwoRuns == {r1, r2}
OneRotation == {rot1}
OneHandler == {h1}
=============================================================================
