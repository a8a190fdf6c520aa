SPECIFICATION Spec
CONSTANTS
    Callers = {u1, u2}
    Queues = {q1, q2}
    Technical = Technical
    NoCaller = NoCaller
    MaxCalls = 3
    MaxRequests = 2
    MaxWakeups = 1
    MaxFailures = 1
INVARIANTS BlockedListIsCurrent OneTokenIsEnough
PROPERTIES StoppedIsNotPopped ListenedIsPopped DestructorReturns
