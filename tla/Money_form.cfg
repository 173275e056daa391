CONSTANTS
  NanosMod = 10
  Int32Half = 21
  Amounts <- MCAmounts
  Code = "USD"
  Costs <- MCCosts
  Shippings <- MCShippings
  Quantities = {1, 2, 3}
  MaxLines = 2
SPECIFICATION MCSpec
INVARIANTS
  SumKeepsMoneyForm
CHECK_DEADLOCK FALSE
