CONSTANTS
    Objects = {t, f}
    Cells = {v}
    Slots = {1, 2}
    MaxExt = 2
    Nil = Nil
    TimerObjects = {t}
    FuncSlot = 2
SPECIFICATION TimerSpec
INVARIANTS TimerFuncAlive
CHECK_DEADLOCK FALSE
