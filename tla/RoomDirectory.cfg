\* A registration and a listing, overtaken by a join, a leave that may die and a rename.
CONSTANTS
    Users = {ana, ben}
    Creator = ana
    Names = {n1, n2}
    Fingerprints = {f1}
    Joins = {j1}
    Leaves = {l1}
    Registrations = {r1}
    Claims = {1, 2}
    Listings = {g1}
    Fallible = {j1, l1}
SPECIFICATION Spec
SYMMETRY NameSymmetry
CHECK_DEADLOCK FALSE
INVARIANTS
    TypeOK
    KeyHolderWasMember
    ListingWitnessed
    DepartedAreShutOut
    HistoryStaysClosed
    JoinAnnouncesNewEpoch
PROPERTIES
    DirectorySpec
