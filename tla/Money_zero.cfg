CONSTANTS
  NanosMod = 10
  Int32Half = 21
  Amounts <- MCAmounts
  Code = "USD"
  Costs <- MCCosts
  Shippings <- MCShippings
  Quantities = {0, 1, 2}
  MaxLines = 2
SPECIFICATION MCSpec
INVARIANTS
  ChargesWhatIsOwed
CHECK_DEADLOCK FALSE
