\* A client that opens a second socket while its first is still served.
CONSTANTS
    ana = ana
    ben = ben
    a1 = a1
    a2 = a2
    b1 = b1
    Users = {ana, ben}
    Sockets = {a1, a2}
    owner <- MCOwner
    displayName <- MCDisplayName
    Announcers = {}
    Dicts = {d1, d2, d3, d4, d5}
    NoDict = NoDict
    NoOne = NoOne
    Reconnect = "any"
    Kinds = {"typing", "store", "reply"}
SPECIFICATION Spec
CHECK_DEADLOCK FALSE
INVARIANTS
    ActiveIsTracked
