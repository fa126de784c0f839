SPECIFICATION Spec
CONSTANTS
    GCODE_QUEUE_DEPTH = 1
    TxRoom = 3
    ReplyRoom = 1
    LongLines <- None
    Requests <- Hold
    GrblSays <- None
    Polls = TRUE
    MaxLines = 1
    PostSizes <- OneLine
    MaxRequests = 1
    MaxCableMoves = 1
PROPERTIES QueueDrains ConnectionShownAgain HoldArrives
