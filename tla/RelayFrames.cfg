\* Frames with repeated ids, a user who leaves, and endpoints that die.
CONSTANTS
    ana = ana
    ben = ben
    a1 = a1
    a2 = a2
    b1 = b1
    Users = {ana, ben}
    Sockets = {a1, b1}
    owner <- MCOwner
    MsgIds = {i1}
    NoId = NoId
    Burst = 2
    Fallible = {a1, b1}
    Leavers = {ana}
SPECIFICATION Spec
CHECK_DEADLOCK FALSE
INVARIANTS
    TypeOK
    OneCopyPerSocket
    RefusedWasAccepted
    AtMostOneLateFrame
PROPERTIES
    LogSpec
