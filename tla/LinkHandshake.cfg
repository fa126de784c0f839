SPECIFICATION SafetySpec
CONSTANTS
    GCODE_QUEUE_DEPTH = 2
    TxRoom = 3
    ReplyRoom = 2
    LongLines <- SecondLine
    Requests <- AllRequests
    GrblSays <- Everything
    Polls = FALSE
    MaxLines = 3
    PostSizes <- OneOrTwo
    MaxRequests = 1
    MaxCableMoves = 2
INVARIANTS InFlightBound PipelineOrder HoldOvertakenOnce
PROPERTY AcceptedNotLost
