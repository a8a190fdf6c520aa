SPECIFICATION Spec
CONSTANTS
    m1 = m1
    m2 = m2
    h1 = h1
    h2 = h2
    Threads = {t1, t2}
    Interfaces = {m1, m2}
    Handlers = {h1, h2}
    InterfaceOf <- OneEach
    NoHandler = NoHandler
    Queues = {q1}
    Technical = Technical
    NoCaller = NoCaller
    MaxListens = 2
    MaxRequests = 1
    MaxWakeups = 1
    MaxFailures = 0
SYMMETRY Symmetry
INVARIANT OneConsumer
