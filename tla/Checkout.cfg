CONSTANTS
  u1 = u1
  i1 = i1
  i2 = i2
  r1 = r1
  r2 = r2
  Users = {u1}
  Items = {i1, i2}
  Buyer <- OneBuyer
  Sellable = {i1}
  Requests = {r1, r2}
  Owner <- OneOwner
  KafkaEnabled = TRUE
  MaxEvents = 2
SPECIFICATION MCSpec
INVARIANTS
  TypeOK
  ItemsAreAccountedFor
  ReorderedOnlyByRacingAdd
  UnsellableIsNeverCharged
PROPERTIES
  KeepsPromise
  EveryOrderEnds
CHECK_DEADLOCK FALSE
