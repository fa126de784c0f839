SPECIFICATION Spec
CONSTANTS
    LOOP = 2
    STALL = 5
    WATCHDOG = 6
    InitFails = TRUE
    MaxFaults = 2
INVARIANTS ResetInTime RecoveryIsFed StallIsShown
PROPERTY StuckIsReset
