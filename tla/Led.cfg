SPECIFICATION LedSpec
CONSTANTS
    GOT_IP_FLASH_COUNT = 3
    LED_HEARTBEAT_EVERY_N_LINES = 3
    BLINK = 2
    FLASH = 1
    PULSE = 2
    MaxLines = 10
INVARIANT LitAsPromised
PROPERTY PulseIsShown
CHECK_DEADLOCK FALSE
