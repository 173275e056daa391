CONSTANTS
  t1 = t1
  t2 = t2
  t3 = t3
  Tabs = {t1, t2}
  Currencies = {"USD", "EUR"}
  Default = "USD"
  MaxOrders = 4
  MaxBatch = 3
  MaxCrashes = 2
  Threads = {t1, t2, t3}
  ThreadCount = 4
  MaxCalls = 4
  MaxConnections = 3
  MaxDrops = 3
  Catalogue = 3
  Products = {"lens", "book"}
  Price <- MCPrice
  MaxQuantity = 2
  Codes = {"USD", "EUR", "XYZ"}
  Rate <- MCRate
  Costs = {40100, 63500}
  NanosMod = 1000
SPECIFICATION MCSpec
INVARIANTS
  OneUserPerBrowser
  OrdersLostHaveCause
  WorkersAreThoseOfRunning
  FlagTellsTheTruth
  CacheHoldsCatalogues
  ChargedIsShown
  ChargedIsOwed
PROPERTIES
  CatchesUp
CHECK_DEADLOCK FALSE
