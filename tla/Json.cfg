SPECIFICATION Spec
CONSTANTS
    cap = 7168
    STATUS_CONSOLE_LINES = 12
    STATUS_FILTERED_LINES = 30
    LINE = 119
    ALARM = 79
    Head = {116, 744}
    Rest = {115, 279}
    Digits = {1, 10}
    Doubled = {0, 79, 119}
INVARIANTS InBuffer WholeIsSent
CHECK_DEADLOCK FALSE
