SPECIFICATION FairSpec
CONSTANTS
    a = a  b = b
    t1 = t1  t2 = t2
    NoTicket = NoTicket  NoSub = NoSub  NoSlot = NoSlot
    Sub = {a}
    Slot = {1, 2}
    Ticket = {t1}
    TicketOf <- SoloTicketOf
    DependsOn <- SoloDependsOn
    EventDriven = {}
    TracksPR = {a}
INVARIANTS ActiveHasWorker
PROPERTIES NoTurnAfterClose MessageTaken
CHECK_DEADLOCK FALSE
