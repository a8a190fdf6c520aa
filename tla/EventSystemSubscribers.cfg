SPECIFICATION Spec
CONSTANTS
    m1 = m1
    m2 = m2
    s1 = s1
    s2 = s2
    Threads = {t1, t2}
    Managers = {m1}
    Subscribers = {s1, s2}
    ManagerOf <- Shared
    Channels = {c1}
    Technical = Technical
    NoCaller = NoCaller
    MaxOperations = 3
    MaxEvents = 2
    MaxWakeups = 0
    MaxFailures = 1
CHECK_DEADLOCK FALSE
SYMMETRY SymmetryOfShared
INVARIANT HandlersExist
PROPERTY ImplementsEventBus
