SPECIFICATION Spec
CONSTANTS
    WINDOW = 2
    SCROLLBACK = 2
    Polls = {p1, p2}
    MaxLines = 4
    MaxBoots = 2
    MaxSelections = 1
    MaxClicks = 2
INVARIANTS RestartsAreReboots ShownInOrder CommandsInOrder
PROPERTIES NewestAreShown LogIsShown ChainDrains
CHECK_DEADLOCK FALSE
