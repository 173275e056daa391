CONSTANTS
  o1 = o1
  o2 = o2
  c1 = c1
  c2 = c2
  Orders = {o1, o2}
  Copies = {c1, c2}
  CopyOf <- CopiesOfFirst
  Capacity = 2
  BrokerFails = FALSE
  CallersLeave = FALSE
SPECIFICATION Spec
INVARIANTS
  ReportIsOwn
CHECK_DEADLOCK FALSE
