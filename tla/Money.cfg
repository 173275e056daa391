CONSTANTS
  NanosMod = 10
  Int32Half = 21
  Amounts <- MCAmounts
  Code = "USD"
  Costs <- MCCosts
  Shippings <- MCShippings
  Quantities = {1, 2, 3}
  MaxLines = 2
SPECIFICATION MCSpec
INVARIANTS
  SumIsExact
  SumIsValidUnlessUnitsVanish
  
  NoPanic
  ChargesWhatIsOwed
  ChargesValidAmount
CHECK_DEADLOCK FALSE
