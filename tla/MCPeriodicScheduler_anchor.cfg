SPECIFICATION Spec
CONSTANTS
    caretaker = caretaker  digest = digest  chat = chat  monitor = monitor
    N = 6
    Order <- TheOrder
    Chats = {chat}
    Monitors = {monitor}
    TickEvery = 2
    None = None
    Casts <- Anchored
INVARIANTS AnchoredRunComes

CHECK_DEADLOCK FALSE
