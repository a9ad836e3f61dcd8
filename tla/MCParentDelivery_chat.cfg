SPECIFICATION FairSpec
CONSTANTS
    p = p  q = q  k = k
    chat = chat
    NoSub = NoSub
    NoTicket = NoTicket
    Sub = {p, k}
    Session = {chat}
    SessionOf <- Apart
    ParentOf <- ChildOfP
    Periodic = {p}
    TicketOf <- NoTickets
    MaxDepth = 2
    MaxReports = 3
INVARIANTS ReactionsBounded UserTurnSeesOutcomes NestedReportsAreKept
PROPERTIES ImplementsPromise AcceptedIsRecorded
CHECK_DEADLOCK FALSE
