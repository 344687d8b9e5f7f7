CONSTANTS
    Jobs = {}
    Timers = {}
    FDs = {fd0, fd1}
    Signals = {}
    MaxDelay = 1
    SelectCap = 1
SPECIFICATION Spec
PROPERTIES WriteHandlerWhenWritable
CHECK_DEADLOCK FALSE
