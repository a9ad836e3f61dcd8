SPECIFICATION Spec
CONSTANTS
    operator = operator  periodic = periodic
    N = 3
    Owners = {operator, periodic}
    Periodic = periodic
    None = None
    Casts <- ThreeCasts
INVARIANTS ViewIsWhole ListsAgree DeletedStaysDeleted
PROPERTIES NothingForgotten
CHECK_DEADLOCK FALSE
