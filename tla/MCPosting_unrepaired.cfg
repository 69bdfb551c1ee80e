SPECIFICATION Spec
CONSTANTS
  Accounts <- MCAccounts
  HandEntries = {h1}
  Documents = {"invoice", "creditNote"}
  Kind <- MCKind
  Worth <- MCWorth
  Against <- MCAgainst
  NoDocument = NoDocument
  NoEntry = NoEntry
  Removed = Removed
  NoAccount = NoAccount
  Mappings <- OnlyFull
  HandRows <- MCHandRows
  Retypable = {"spare"}
  InitialDebits <- MCDebits
  OpeningStock = 5
  Slots = {s1}
  MaxRequests = 3
  MayAbandon = TRUE
CHECK_DEADLOCK FALSE
INVARIANTS
  ReturnedGoodsAreBooked
