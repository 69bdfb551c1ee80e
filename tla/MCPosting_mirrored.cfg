SPECIFICATION Spec
CONSTANTS
  Accounts <- MCAccounts
  HandEntries = {h1}
  Documents = {"invoice", "payment"}
  Kind <- MCKind
  Worth <- MCWorth
  Against <- MCAgainst
  NoDocument = NoDocument
  NoEntry = NoEntry
  Removed = Removed
  NoAccount = NoAccount
  Mappings <- OnlyMoved
  HandRows <- MCHandRows
  Retypable = {}
  InitialDebits <- MCDebits
  OpeningStock = 5
  Slots = {s1}
  MaxRequests = 3
  MayAbandon = FALSE
CHECK_DEADLOCK FALSE
INVARIANTS
  UndoneLeavesNothing
