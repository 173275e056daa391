CONSTANTS
  u1 = u1
  a1 = a1
  a2 = a2
  e1 = e1
  g1 = g1
  Users = {u1}
  Adds = {a1, a2}
  Empties = {e1}
  Gets = {}
  Of <- OneCaller
  OneAtATime = {}
SPECIFICATION Spec
INVARIANTS
  ImmortalOnlyHalfWritten
PROPERTIES
  LostOnlyToStaleWrite
CHECK_DEADLOCK FALSE
