SPECIFICATION FairOpenSpec
CONSTANTS
    Msgs = {m1, m2, m3}
    Ids = {i1, i2}
    NoId = NoId
    chat = chat
    ping = ping
    Paths = {chat, ping}
    Frames <- TwoFrames
    N = 2
    Matching <- MCMatching
    MaxReceives = 2
    Timeouts = FALSE
    None = None
    m1 = m1
    m2 = m2
    m3 = m3
    i1 = i1
    i2 = i2
CHECK_DEADLOCK FALSE
PROPERTY LockProgress
