CONSTANTS
    Jobs = {}
    Timers = {}
    FDs = {fd0}
    Signals = {s1}
    MaxDelay = 1
    SelectCap = 1
SPECIFICATION FairSpec
PROPERTIES SignalHandled
CHECK_DEADLOCK FALSE
