\* What a leave announces.
CONSTANTS
    Users = {ana, ben}
    Creator = ana
    Names = {n1}
    Fingerprints = {f1}
    Joins = {j1}
    Leaves = {l1, l2}
    Registrations = {}
    Claims = {}
    Listings = {}
    Fallible = {}
SPECIFICATION Spec
SYMMETRY RequestSymmetry
CHECK_DEADLOCK FALSE
INVARIANTS
    RotationAnnouncesNewEpoch
