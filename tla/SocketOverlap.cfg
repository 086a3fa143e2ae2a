\* Clients that come and go, a second socket whenever they like, and a rotation.
CONSTANTS
    ana = ana
    ben = ben
    a1 = a1
    a2 = a2
    b1 = b1
    Users = {ana, ben}
    Sockets = {a1, a2, b1}
    owner <- MCOwner
    displayName <- MCDisplayName
    Announcers = {k1}
    Dicts = {d1, d2, d3, d4, d5}
    NoDict = NoDict
    NoOne = NoOne
    Reconnect = "any"
    Kinds = {}
SPECIFICATION Spec
CHECK_DEADLOCK FALSE
SYMMETRY SocketSymmetry
INVARIANTS
    TypeOK
PROPERTIES
    OnlyOwnSocketsForget
