SPECIFICATION SharedSpec
CONSTANTS
    GCODE_QUEUE_DEPTH = 2
    Lines = {G0, G1}
    NoLine = NoLine
    CONSOLE_LOG_LINES = 2
    LogLines = {ok, status}
    Windows = {1, 3}
    MaxPushes = 4
PROPERTIES ImplementsFifo ImplementsLog PopReturns
