SPECIFICATION FairSpec
CONSTANTS
    Msgs = {m1, m2}
    NOpen = 2
    NClose = 2
    Pings = TRUE
    None = None
    m1 = m1
    m2 = m2
INVARIANTS TypeOK CleanupBeforeStop FirstReasonSent CloseHandlersKnowWhy OpenedBeforeMessages
PROPERTIES PingFailureCleansUp PingLoopStops EverythingDrains
