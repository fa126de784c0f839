SPECIFICATION Spec
CONSTANTS
    Creds = {home, cafe, typo}
    NoCreds = NoCreds
    Scrambled = Scrambled
    Default = home
    Joinable = {home, cafe}
    Flaky = TRUE
    MaxPosts = 3
    MaxResets = 3
    MaxSaveFails = 1
INVARIANTS BootUsesWholeRecord FlashWins
PROPERTIES BootEnds UpdateTakesHold
CHECK_DEADLOCK FALSE
