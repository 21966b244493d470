SPECIFICATION FairSpec
CONSTANTS
    Msgs = {m1, m2}
    Ids = {i1}
    NoId = NoId
    chat = chat
    ping = ping
    Paths = {chat, ping}
    Frames <- LooseFrames
    N = 2
    Matching <- MCMatching
    MaxReceives = 1
    Timeouts = TRUE
    None = None
    m1 = m1
    m2 = m2
    i1 = i1
    i2 = i2
INVARIANTS TypeOK NoLostWakeup NoDanglingReceiver
PROPERTY ShutdownDrains
