SPECIFICATION FairSpec
CONSTANTS
    a = a  b = b
    t1 = t1  t2 = t2
    NoTicket = NoTicket  NoSub = NoSub  NoSlot = NoSlot
    Sub = {a, b}
    Slot = {1}
    Ticket = {t1, t2}
    TicketOf <- ChainTicketOf
    DependsOn <- ChainDependsOn
    EventDriven = {}
    TracksPR = {}
INVARIANTS KeysReferToActive
PROPERTIES FinalStaysFinal DependentsStop PrerequisiteReopens
CHECK_DEADLOCK FALSE
