SPECIFICATION Spec
CONSTANTS
  Accounts <- MCAccounts
  HandEntries = {h1}
  Documents = {"invoice", "payment", "creditNote", "receipt", "purchaseReturn", "vendorPayment", "expense", "movement"}
  Kind <- MCKind
  Worth <- MCWorth
  Against <- MCAgainst
  NoDocument = NoDocument
  NoEntry = NoEntry
  Removed = Removed
  NoAccount = NoAccount
  Mappings <- AllMappings
  HandRows <- MCHandRows
  Retypable = {"spare"}
  InitialDebits <- MCDebits
  OpeningStock = 5
  Slots = {s1, s2}
  MaxRequests = 3
  MayAbandon = TRUE
CHECK_DEADLOCK FALSE
INVARIANTS
  PostingTypeOK
  BooksAgree
  ControlsAgree
  ValuationIsInventory
  RepairLeavesNothingOut
PROPERTIES
  PostedForGood
