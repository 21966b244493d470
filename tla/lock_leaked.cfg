SPECIFICATION Spec
CONSTANTS
    Msgs = {m1, m2, m3}
    Ids = {i1}
    NoId = NoId
    chat = chat
    ping = ping
    Paths = {chat, ping}
    Frames <- FullFrames
    N = 2
    Matching <- MCMatching
    MaxReceives = 1
    Timeouts = TRUE
    None = None
    m1 = m1
    m2 = m2
    m3 = m3
    i1 = i1
    i2 = i2
SYMMETRY MsgSymmetry
INVARIANT BlockedByLiveMessage
