SPECIFICATION LibrarySpec
PROPERTIES  ExpressionsRight BytecodeRight LabelsRight
CHECK_DEADLOCK FALSE
