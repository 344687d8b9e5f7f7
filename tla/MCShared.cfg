CONSTANTS
    ObScenes <- MCScenes
    Quirk = "none"
    MpKeys <- MCKeys
    MpValues = {1}
    MpItems <- MCItems
    MpMaxOps = 5
    MpSlacks = {0, 1}
    WkMaps = {21, 22}
    WkObjects <- MCWeakKeys
    Texts = {"a", "b", "7"}
    IntTexts = {"7"}
    ConstText = "a"
    AtomHash <- MCHash
    MinArray = 2
    MaxStructs = 5
    MaxHolds = 2
SPECIFICATION SharedSpec
INVARIANTS TablesSound
PROPERTIES ObjectsRefine MapsRefine HoldersKeepMeaning
CHECK_DEADLOCK FALSE
