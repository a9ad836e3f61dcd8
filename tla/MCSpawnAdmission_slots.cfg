SPECIFICATION FairSpec
CONSTANTS
    conv1 = conv1  conv2 = conv2
    t1 = t1  t2 = t2  t3 = t3
    NoTicket = NoTicket
    N = 6
    Conv = {conv1, conv2}
    OwnerOf <- Owners
    Ticket = {t1, t2, t3}
    TicketOf <- Tickets
    DependsOn <- Prerequisites
    Budget = 2
    QueueMax = 2
    Settings <- ThreeSettings
INVARIANTS WithinLimits OneMonitorPerTicket NoIdleSlot
PROPERTIES ServedInOrder CallsReturn
CHECK_DEADLOCK FALSE
