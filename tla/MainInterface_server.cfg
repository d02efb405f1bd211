SPECIFICATION SafeSpec
CONSTANTS
    r1 = r1
    r2 = r2
    r3 = r3
    p1 = p1
    p2 = p2
    Requests = {r1}
    Chunks <- OneSend
    Types = {"tcpServer"}
    Peers = {p1, p2}
    MaxConnects = 1
INVARIANT StatusIsTruth
