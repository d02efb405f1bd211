SPECIFICATION Spec
CONSTANTS
    r1 = r1
    r2 = r2
    r3 = r3
    p1 = p1
    p2 = p2
    Requests = {r1, r2, r3}
    Chunks <- WithEmpty
    Types = {"serial", "tcpClient"}
    Peers = {}
    MaxConnects = 2
PROPERTY AnswersEveryRequest
PROPERTY ButtonsComeBack
