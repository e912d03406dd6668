\* The worker, two callers with one call each, and the destructor.
CONSTANTS
    Callers = {c1, c2}
    MaxCalls = 1
    StampBits = 2
    StampInit = {0}
    None = None
SPECIFICATION Spec
INVARIANTS TypeOK DoneNeverSleeps
PROPERTIES WeightWorkerRefined
CHECK_DEADLOCK FALSE
