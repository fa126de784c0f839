SPECIFICATION AssemblySpec
CONSTANTS
    LINE_BUF_LEN = 4
    MaxReceived = 9
INVARIANTS PiecesAreTextInOrder ShortLinesComeWhole
CHECK_DEADLOCK FALSE
