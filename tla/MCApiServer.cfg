SPECIFICATION Spec
CONSTANTS
    a = a
    b = b
    c = c
    Requests = {a, b, c}
    Limit <- LimitedAndOpen
    Eta = 2
    MaxTicks = 2
    MaxAdmin = 2
    MaxFaults = 1
    None = None
INVARIANTS SharedProvider TicksAreFresh
PROPERTIES LimitedRequestsEnd
CHECK_DEADLOCK FALSE
