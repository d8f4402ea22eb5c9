CONSTANTS
    Messages = {m1, m2}
    MaxButtons = 2
    MaxId = 2
    Requests = {r1, r2}
    MaxLives = 2
SPECIFICATION Spec
CHECK_DEADLOCK FALSE
INVARIANTS TakenOnce OwnFunction
PROPERTY PressesEnd
