SPECIFICATION Spec
CONSTANTS
    Msgs = {m1, m2, m3}
    Ids = {i1}
    NoId = NoId
    Paths = {a, b}
    NoPath = NoPath
    Funcs = {f, g, h, w}
    Codecs = {json, msgpack}
    Routers = {root, sub}
    Root = root
    Keys = {k}
    Vals = {v1, v2}
    Setups <- ReceivingBehindRouter
    None = None
    m1 = m1
    m2 = m2
    m3 = m3
    i1 = i1
    a = a
    b = b
    f = f
    g = g
    h = h
    w = w
    json = json
    msgpack = msgpack
    root = root
    sub = sub
    v1 = v1
    v2 = v2
CHECK_DEADLOCK FALSE
PROPERTY RoutedToTheReceiver
