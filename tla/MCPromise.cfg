CONSTANTS
    NPromises = 3
    NPairs = 4
    MaxDepth = 2
    Objects = {o}
    Undefined = Undefined
    TypeError = TypeError
SPECIFICATION FairSpec
INVARIANTS OneResolver ReactionsInOrder AdoptsState
PROPERTIES ReactionsStart
CHECK_DEADLOCK FALSE
