SPECIFICATION SafetySpec
CONSTANTS
    GCODE_QUEUE_DEPTH = 2
    TxRoom = 6
    ReplyRoom = 2
    LongLines <- FirstLine
    Requests <- None
    GrblSays <- None
    Polls = FALSE
    MaxLines = 2
    PostSizes <- TwoLines
    MaxRequests = 0
    MaxCableMoves = 1
INVARIANT LinesStayApart
