CONSTANTS
  Types <- DemoTypes
  Methods <- DemoMethods
  Writers <- MCWriters
  Objects <- MCObjects
  MaxDepth = 4
  Int32Half = 8
  Int64Half = 64
  MaxSafe = 31
SPECIFICATION Spec
INVARIANTS
  ReadAsMeant
  OnlyUnsafeUnitsFail
  JsonKeepsTheMessage
CHECK_DEADLOCK FALSE
