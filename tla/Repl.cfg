CONSTANTS
    Peers = {p1, p2, p3}
    Listener = Listener
    NoConn = NoConn
    Backlog = 2
    MaxRequests = 2
    SockCap = 1
    MayClose = {p3}
    Pipelining = {p3}
SPECIFICATION FairSpec
INVARIANTS TypeOK AnswerMatchesRequest
PROPERTIES RequestAnswered NewerConnectionsKept
