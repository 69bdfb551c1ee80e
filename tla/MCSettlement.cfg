SPECIFICATION Spec
CONSTANTS
  Total = 2
  Payments = {p1, p2}
  Notes = {n1, n2}
  NoId = NoId
  Slots = {s1, s2}
  MayAbandon = TRUE
SYMMETRY Symmetry
\* A cancelled or settled invoice with every id taken has nothing left to do.
CHECK_DEADLOCK FALSE
INVARIANTS
  SettlementTypeOK
  Settled
  LedgersFitTheInvoice
PROPERTIES
  PaymentsFitTheBalance
  CancelledIsClosed
  OnlySetStatusIssues
