SPECIFICATION Spec
CONSTANTS
    r1 = r1  r2 = r2  r3 = r3  main = main  side = side  m1 = m1  m2 = m2  client = client
    Requests = {r1, r2, r3}
    Sessions = {main, side}
    NoId = NoId
    None = None
    Casts <- OneCast
PROPERTIES RestartCutsNoTurn
CHECK_DEADLOCK FALSE
