CONSTANTS
    RxInf = 50
    RxCaptureMax = 4
    RxStackMax = 4
    RxMaxSteps = 200
    MaxConds = 2
    TaScenes <- MCTaScenes
    TaClasses = {"Int8", "Int16"}
    TaValues <- MCTaValues
    TaPos <- MCTaPos
    TaMaxOps = 2
    TaMaxViews = 4
    Vals = {1, 2}
    Fns = {0, 1}
    Protos = {0, 1}
SPECIFICATION EngineSpec
INVARIANTS RegexpRight StatementsRight ViewsSound ProxyConsistent
PROPERTIES AsElements
CHECK_DEADLOCK FALSE
