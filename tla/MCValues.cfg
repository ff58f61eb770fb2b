SPECIFICATION Spec
CONSTANTS
  Types <- MCTypes
  Argument <- Arguments
  StackLimit = 20
  MaxAlloc = 8
  MaxContainerItemsToPrint = 2
INVARIANTS
  PrintsValue
  NeverCrashes
CHECK_DEADLOCK FALSE
