CONSTANTS
    Near = 12
    Far = 24
    Hops = 10
    LoopDepths = {0, 1, 2, 3}
SPECIFICATION LbSpec
INVARIANT AssemblesAll
CHECK_DEADLOCK FALSE
