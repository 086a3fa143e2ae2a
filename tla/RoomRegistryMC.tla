--------------------------- MODULE RoomRegistryMC ---------------------------
(* Small instances of RoomRegistry for TLC.                                 *)
EXTENDS RoomRegistry, TLC

\* Requests of one kind are interchangeable, since Init chooses their inputs.
RequestSymmetry ==
    Permutations(Joins) \cup Permutations(Leaves) \cup
    Permutations(Registrations)

\* Display names are only compared for equality.
NameSymmetry == Permutations(Names)
=============================================================================
