SPECIFICATION Spec
CONSTANTS
    Msgs = {m1, m2, m3}
    Ids = {i1, i2}
    NoId = NoId
    chat = chat
    ping = ping
    Paths = {chat, ping}
    Frames <- MixedFrames
    N = 2
    Matching <- MCMatching
    MaxReceives = 2
    Timeouts = FALSE
    None = None
    m1 = m1
    m2 = m2
    m3 = m3
    i1 = i1
    i2 = i2
CONSTRAINT WhileOpen
SYMMETRY MsgSymmetry
INVARIANTS SerialChain HandedOverIsAwaited BlockedByLiveMessage DeliveryNeverBlocks
PROPERTY ImplementsFloor
