CONSTANTS
    Callers = {c1, c2}
    NoCaller = NoCaller
    RefreshWindow = 1
    HTTPTimeout = 2
    Lifetime = 3
    MaxTokens = 2
    MaxTime = 6
    MaxCalls = 2
SPECIFICATION Spec
SYMMETRY Symmetry
INVARIANTS OneExchangeAtATime SpareOnlyAfterRejection OverrunIsBounded
PROPERTIES SuccessIsUsable RetryUsesNewerToken ImplementsContract
CHECK_DEADLOCK FALSE
