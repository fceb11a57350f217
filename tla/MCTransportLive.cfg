CONSTANTS
    Callers = {c1, c2}
    NoCaller = NoCaller
    RefreshWindow = 1
    HTTPTimeout = 1
    Lifetime = 2
    MaxTokens = 2
    MaxTime = 1
    MaxCalls = 3
SPECIFICATION FairSpec
PROPERTIES EveryCallReturns
CHECK_DEADLOCK FALSE
