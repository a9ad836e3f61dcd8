SPECIFICATION Spec
CONSTANTS
    Msg = {m1}
    Note = Note
    LastRun = 6
    Budgets <- SmallBudgets
    ErrorThreshold = 2
    Retries = 1
    IdleCap = 3
    PauseCap = 2
    AutoStop = 2
    HumanCap = 2
    Extension = 1
    Ceiling = 3
    Window = 2
    Escalation = 2
INVARIANTS RunNumbersOnce HeardOnce LimitsHold
PROPERTIES RestartKeepsMessages
CHECK_DEADLOCK FALSE
