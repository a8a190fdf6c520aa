SPECIFICATION Spec
CONSTANTS
    m1 = m1
    m2 = m2
    s1 = s1
    s2 = s2
    Threads = {t1, t2}
    Managers = {m1}
    Subscribers = {s1}
    ManagerOf <- OneAlone
    Channels = {c1, c2}
    Technical = Technical
    NoCaller = NoCaller
    MaxOperations = 3
    MaxEvents = 1
    MaxWakeups = 0
    MaxFailures = 0
CHECK_DEADLOCK FALSE
PROPERTIES ReturnsUnlessCircularWait DeliveredUnlessCircularWait
INVARIANT OnlyCircularWaitBlocks
