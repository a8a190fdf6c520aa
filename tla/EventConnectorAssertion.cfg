SPECIFICATION Spec
CONSTANTS
    Callers = {u1, u2}
    Channels = {c1, c2}
    Technical = Technical
    NoCaller = NoCaller
    MaxCalls = 3
    MaxEvents = 1
    MaxWakeups = 2
    MaxFailures = 1
INVARIANT SubscriptionsMutexed
