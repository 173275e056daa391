CONSTANTS
  u1 = u1
  a1 = a1
  a2 = a2
  e1 = e1
  g1 = g1
  Users = {u1}
  Adds = {a1, a2}
  Empties = {e1}
  Gets = {g1}
  Of <- OneCaller
  OneAtATime = {u1}
SPECIFICATION Spec
PROPERTIES
  CartIsAtomic
CHECK_DEADLOCK FALSE
