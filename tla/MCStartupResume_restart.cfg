SPECIFICATION Spec
CONSTANTS
    k = k  NoKey = NoKey
    N = 3
    Casts <- ThreeCasts
    Cap = 2
    Msg = {m}
    Restarts = 2
INVARIANTS LiveComesBack MailSurvives OneRecordPerKey PausedStaysPaused
PROPERTIES ClosedStaysClosed
CHECK_DEADLOCK FALSE
