SPECIFICATION Spec
CONSTANTS
    i1 = i1
    Interfaces = {i1}
    Requests = {r1, r2}
    SenderOf <- OneSender
    Consumers = {k1, k2}
    Ahead = {k1}
    NoRequest = NoRequest
    MaxCrashes = 1
    MaxFailures = 1
CHECK_DEADLOCK FALSE
INVARIANTS CalledPromisesExist ClosesInPeace
PROPERTIES  CallsEnd
