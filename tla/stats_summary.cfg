\* Two engines; a sender, the display and main call GetStats.
CONSTANTS
    NumEngines = 2
    Senders = {s1}
    Main = main
    Display = display
    Updater = updater
    NoOne = NoOne
    MaxHashes = 1
    MaxCalls = 1
SPECIFICATION FairSpec
PROPERTIES ShutdownEnds
\* The process ends, or main is stuck in its summary.
CHECK_DEADLOCK FALSE
