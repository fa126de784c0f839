SPECIFICATION Spec
CONSTANTS
    Words = {idle, run}
    Offsets = {o1, o2}
    Systems = {"G54", "G55"}
    Unknown = Unknown
    G54 = "G54"
    WINDOW = 2
    MaxChanges = 1
    MaxReports = 3
    MaxErrors = 1
    MaxOthers = 1
    MaxCommands = 1
    MaxReplugs = 1
    MaxPolls = 1
INVARIANTS OffsetInForce SystemInForce LogTellsStatus LogExplainsStatus
PROPERTY AlarmIsTheUsers
SYMMETRY Interchangeable
CHECK_DEADLOCK FALSE
