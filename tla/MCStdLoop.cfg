CONSTANTS
    Jobs = {j1, j2}
    Timers = {t1, t2}
    FDs = {fd0, fd1}
    Signals = {s1, s2}
    MaxDelay = 1
    SelectCap = 1
    Kits = {{j1, j2, t1}, {t1, t2}, {t1, fd0, fd1}, {j1, t1, fd0, s1}, {s1, s2, fd0}}
SPECIFICATION MCSpec
INVARIANTS TimerRecords HandlerLists JobsBeforeEvents
PROPERTIES TimerFires EventsServed
CHECK_DEADLOCK FALSE
