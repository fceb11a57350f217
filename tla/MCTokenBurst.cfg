CONSTANTS
    Callers = {c1, c2, c3}
    NoCaller = NoCaller
    RefreshWindow = 1
    HTTPTimeout = 2
    Lifetime = 3
    MaxTokens = 3
    MaxTime = 0
    MaxCalls = 3
SPECIFICATION Spec
INVARIANTS OneTokenPerBurst
CHECK_DEADLOCK FALSE
