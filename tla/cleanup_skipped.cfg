SPECIFICATION Spec
CONSTANTS
    Msgs = {m1}
    NOpen = 2
    NClose = 2
    Pings = TRUE
    None = None
    m1 = m1
INVARIANT CloseHandlersAlwaysRun
