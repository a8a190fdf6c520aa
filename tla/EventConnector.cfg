SPECIFICATION Spec
CONSTANTS
    Callers = {u1, u2}
    Channels = {c1, c2}
    Technical = Technical
    NoCaller = NoCaller
    MaxCalls = 2
    MaxEvents = 2
    MaxWakeups = 1
    MaxFailures = 1
INVARIANTS RefusedOnlyAfterFailure OneCommandInFlight NoWakeupLost UnsubscribedIsQuiet
PROPERTIES CallTakesEffect CallReturns OwnerReturns SentEventsHandled
