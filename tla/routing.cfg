SPECIFICATION Spec
CONSTANTS
    Routers = {1, 2}
    Funcs = {f1}
    Openers = {h1, o1}
    Closers = {h1, c1}
    a = a
    b = b
    Rest = Rest
    Segments <- MCSegments
    Patterns <- MCPatterns
    Lists <- MCLists
    Metas = {x, y}
    MaxBinds = 3
    Recovers = TRUE
    None = None
    f1 = f1
    h1 = h1
    o1 = o1
    c1 = c1
    x = x
    y = y
SYMMETRY MetaSymmetry
CHECK_DEADLOCK FALSE
INVARIANTS TypeOK AdvertisedWasPublished HooksFollowHandlers ServedIsFound ServedIsHooked

PROPERTY GatewayViewGrows
