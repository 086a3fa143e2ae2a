\* A client that comes back when its last endpoint has ended, and clients that go away.
CONSTANTS
    ana = ana
    ben = ben
    a1 = a1
    a2 = a2
    b1 = b1
    Users = {ana, ben}
    Sockets = {a1, a2, b1}
    owner <- MCOwner
    displayName <- MCDisplayName
    Announcers = {}
    Dicts = {d1, d2, d3, d4, d5}
    NoDict = NoDict
    NoOne = NoOne
    Reconnect = "serial"
    Kinds = {"typing", "store", "reply"}
SPECIFICATION FairSpec
CHECK_DEADLOCK FALSE
INVARIANTS
    StaleIsClosed
PROPERTIES
    OnlyCleanUpForgets
    DroppedIsForgotten
