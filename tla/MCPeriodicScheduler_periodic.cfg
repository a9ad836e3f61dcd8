SPECIFICATION FairSpec
CONSTANTS
    caretaker = caretaker  digest = digest  chat = chat  monitor = monitor
    N = 6
    Order <- TheOrder
    Chats = {chat}
    Monitors = {monitor}
    TickEvery = 2
    None = None
    Casts <- TwoCasts
INVARIANTS OneRunAtATime DecisionsSurvive
PROPERTIES Cadence DueFires
CHECK_DEADLOCK FALSE
