SPECIFICATION Spec
CONSTANTS
    Conns = {c1}
    REQ_BUF_SIZE = 6
    Requests <- AllSizes
    HEAD = 3
    BODY = 4
    BODY413 = 1
    SND_BUF = 4
    MaxWriteFails = 2
INVARIANTS MemoryFollowsPcb WireIsResponse AnsweredOnce HandlerGetsWholeBody
PROPERTY ConnectionEnds
CHECK_DEADLOCK FALSE
