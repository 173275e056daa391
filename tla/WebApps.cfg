CONSTANTS
  b1 = b1
  a1 = a1
  f1 = f1
  f2 = f2
  Basic = {b1}
  Advanced = {a1}
  Flags = {f1, f2}
  Variants = {"off", "on"}
  Initial <- MCInitial
  Length <- MCLength
  MaxSaves = 2
  MaxEdits = 2
  c1 = c1
  c2 = c2
  u1 = u1
  Clients = {c1, c2}
  Users = {u1}
  UserOf <- MCUserOf
  Currencies = {"USD", "EUR"}
  Usual = "USD"
  MaxActs = 4
SPECIFICATION MCSpec
INVARIANTS
  FlagdUiTypeOK
  FileIsWhole
  FreshSaveKeepsOthers
  UnmarkedIsSaved
  SpinnerHasCause
  StorefrontTypeOK
  ConfirmedIsOrdered
  NothingOrderedTwice
  ReadsItsOwnChanges
  PatientUserOrdersWhatIsShown
CHECK_DEADLOCK FALSE
