\* The worker alone, the proxy never destroyed unless the owner chooses to.
CONSTANTS
    Callers = {}
    MaxCalls = 0
    StampBits = 2
    StampInit = {0}
    None = None
SPECIFICATION Spec
PROPERTIES PeriodicRefresh
CHECK_DEADLOCK FALSE
