CONSTANTS
    Peers = {p1, p2, p3}
    Listener = Listener
    NoConn = NoConn
    Backlog = 2
    MaxRequests = 2
    SockCap = 1
    MayClose = {p1, p2, p3}
    Pipelining = {}
SPECIFICATION Spec
INVARIANTS AllConnectionsMonitored
