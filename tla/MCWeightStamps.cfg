\* Two callers refresh while the worker does; the stamp starts anywhere.
CONSTANTS
    Callers = {c1, c2}
    MaxCalls = 1
    StampBits = 2
    StampInit <- MCAnyStamp
    None = None
SPECIFICATION Spec
PROPERTIES StampsIncrease
CHECK_DEADLOCK FALSE
