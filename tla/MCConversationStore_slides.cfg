SPECIFICATION Spec
CONSTANTS
    operator = operator  periodic = periodic
    N = 3
    Owners = {operator, periodic}
    Periodic = periodic
    None = None
    Casts <- OneCast
INVARIANTS SummarySawWhatItCovers
CHECK_DEADLOCK FALSE
